---- MODULE Spec2Model ----
(***************************************************************************)
(* The REST handlers of the application (likes, follows, posts, comments)  *)
(* as a state machine over the database tables and the object storage.     *)
(* Every awaited database or storage call of a handler is one atomic step; *)
(* requests in flight interleave freely between their steps.               *)
(***************************************************************************)
EXTENDS Integers, Sequences, FiniteSets, TLC

\* ---------------------------------------------------------------- bounds
MaxPosts == 2
MaxComments == 2
MaxInFlight == 2
MaxUsers == 2
MaxListed == 3
MinWidth == 700
MaxWidth == 1100

\* ------------------------------------------------------ program constants
Ok == 200
BadRequest == 400
Unauthorized == 401
Forbidden == 403
NotFound == 404
Conflict == 409
InternalServerError == 500
TemporaryRedirect == 307
MaxLimit == 50
MAX_COMMENT_LENGTH == 2200
MAX_CAPTION_LENGTH == 2200
MAX_FILE_SIZE == 5 * 1024 * 1024
DefaultLimit == 10

\* ------------------------------------------------------------ identities
Anonymous == "anonymous"               \* auth() yields userId = null
SyncedClerks == {"clerk_a", "clerk_b"} \* identities that have a users row
UnsyncedClerk == "clerk_c"             \* signed in, but no users row yet
UserIds == {"ua", "ub"}
PostIds == 1..MaxPosts
CommentIds == 1..MaxComments
LikeKeys == PostIds \X UserIds
FollowKeys == UserIds \X UserIds

VARIABLES
    users,            \* table users: set of [id, clerk_id]
    posts,            \* table posts: set of [id, user_id, image_url, caption]
    likes,            \* table likes: number of rows per <<post_id, user_id>>
    follows,          \* table follows: number of rows per <<follower_id, following_id>>
    comments,         \* table comments: set of [id, post_id, user_id, content]
    storage,          \* objects of the bucket: set of [path, contentType, resized]
    bucket,           \* NEXT_PUBLIC_STORAGE_BUCKET || 'uploads'
    nextPost,         \* next id the database gives a post row
    nextComment,      \* next id the database gives a comment row
    nextUser,         \* next id the database gives a users row
    nextFile,         \* stands for Date.now() and Math.random() of a file name
    reqs,             \* requests in flight, a bag of request records
    removedPosts,     \* history: [post, owner, by] for every post row removed
    removedComments,  \* history: [comment, author, by] for every comment row removed
    component,        \* the component that shows the like button, "-" when none is mounted
    liked,            \* its state liked
    likeCount,        \* its state likeCount (currentLikeCount in PostCard)
    postProps,        \* PostCard: the props [isLiked, likeCount] the feed passes
    likeClicks,       \* runs of handleLikeClick that await their response, a bag
    settledLike,      \* history: the last run of handleLikeClick that ended
    isFollowing,      \* FollowButton: its state isFollowing
    isLoading,        \* FollowButton: its state isLoading
    followClicks,     \* the run of handleFollowToggle that awaits its response, if any
    settledFollow,    \* history: the last run of handleFollowToggle that ended
    innerWidth,       \* width of the viewport in px
    cnImpl,           \* how cn of @/lib/utils treats conflicting utility classes
    feed,             \* PostFeed: its state [posts, loading, loadingMore, hasMore, error, page]
    feedCalls,        \* runs of its loaders that await their response: <<[kind, nextPage]>>
    feedTrace         \* history: [loaded, ended, settled] of the responses applied

db == <<users, posts, likes, follows, comments, storage>>
ids == <<nextPost, nextComment, nextFile, nextUser, bucket>>
hist == <<removedPosts, removedComments>>
likeButton == <<component, liked, likeCount, postProps, likeClicks, settledLike>>
followButton == <<isFollowing, isLoading, followClicks, settledFollow>>
screen == <<innerWidth, cnImpl>>
postFeed == <<feed, feedCalls, feedTrace>>
ui == <<likeButton, followButton, screen, postFeed>>
vars == <<users, posts, likes, follows, comments, storage, bucket, nextPost,
          nextComment, nextFile, nextUser, reqs, removedPosts, removedComments,
          component, liked, likeCount, postProps, likeClicks, settledLike,
          isFollowing, isLoading, followClicks, settledFollow, innerWidth, cnImpl,
          feed, feedCalls, feedTrace>>

\* ------------------------------------------------------------------ bags
Put(B, e) == IF e \in DOMAIN B THEN [B EXCEPT ![e] = @ + 1] ELSE B @@ (e :> 1)

Take(B, e) == IF B[e] > 1 THEN [B EXCEPT ![e] = @ - 1]
              ELSE [x \in DOMAIN B \ {e} |-> B[x]]

RECURSIVE SumOver(_, _)
SumOver(f, S) == IF S = {} THEN 0
                 ELSE LET x == CHOOSE y \in S : TRUE IN f[x] + SumOver(f, S \ {x})

Size(B) == SumOver(B, DOMAIN B)

\* ----------------------------------------------------------------- text
\* A string, as far as length and trim() see it: lead white-space characters,
\* then core characters of which the first and the last are not white space,
\* then trail white-space characters. An all-white string has core = 0 and
\* its white space in lead.
Text(lead, core, trail) == [lead |-> lead, core |-> core, trail |-> trail]

EmptyText == Text(0, 0, 0)

StrLen(t) == t.lead + t.core + t.trail

\* String.prototype.trim
Trim(t) == Text(0, t.core, 0)

\* -------------------------------------------------------------- requests
NewReq(kind, clerk) ==
    [kind |-> kind, clerk |-> clerk, fault |-> "none",
     \* inputs: path parameter or id in the body; a comment POST has a field
     \* content, a post POST a field form, a posts GET a field query as well
     post |-> 0, target |-> "", comment |-> 0,
     \* locals of the handler
     pc |-> "auth", userId |-> "", image_url |-> <<>>, filePath |-> <<>>,
     \* response
     status |-> 0,
     \* history: what the existence check met, calls issued, tables written
     seen |-> "-", postSeen |-> "-", calls |-> 0, wrote |-> FALSE]

Respond(r, code) == [r EXCEPT !.pc = "done", !.status = code]

Goto(r, label) == [r EXCEPT !.pc = label]

\* A request enters the server: its handler ran up to its first awaited call.
Enter(r) ==
    /\ Size(reqs) < MaxInFlight
    /\ reqs' = Put(reqs, r)

\* One step of request r, which issued ncalls database or storage calls.
Advance(r, nr, ncalls) ==
    reqs' = Put(Take(reqs, r),
                [nr EXCEPT !.calls = r.calls + ncalls,
                           !.wrote = r.wrote \/ (db' # db)])

\* ------------------------------------------------- database client calls
\* .single(): exactly one row, or the error PGRST116; a failed call has
\* another error code.
Single(n, failed) ==
    [found |-> ~failed /\ n = 1,
     error |-> IF failed THEN "FAILED" ELSE IF n # 1 THEN "PGRST116" ELSE ""]

UsersByClerk(c) == {u \in users : u.clerk_id = c}

UsersById(id) == {u \in users : u.id = id}

PostsById(p) == {x \in posts : x.id = p}

CommentsById(c) == {x \in comments : x.id = c}

TheRow(S) == CHOOSE x \in S : TRUE

\* History: whether the posts table holds post p at this step.
PostSeen(p) == IF PostsById(p) # {} THEN "row" ELSE "norow"

\* ------------------------------------------------------ storage client
\* posts/route.ts 368-370: `${clerkUserId}/${Date.now()}-${random}.jpg`,
\* a path of two segments.
FilePath(clerk, n) == <<clerk, ToString(n) \o ".jpg">>

\* posts/route.ts 286: imageFile.type.startsWith('image/')
IsImageType(type) == type \in {"image/png", "image/jpeg"}

\* An object of the bucket.
Object(path, contentType, resized) ==
    [path |-> path, contentType |-> contentType, resized |-> resized]

\* storage.from(bucket).remove([path])
Remove(objects, path) == {o \in objects : o.path # path}

\* getPublicUrl: the path of the public URL, split at "/".
PublicUrl(b, path) == <<"", "storage", "v1", "object", "public", b>> \o path

\* Array.prototype.indexOf, 1-based; 0 stands for -1.
IndexOf(seq, x) ==
    IF \E i \in 1..Len(seq) : seq[i] = x
    THEN CHOOSE i \in 1..Len(seq) : seq[i] = x /\ \A j \in 1..(i - 1) : seq[j] # x
    ELSE 0

\* ------------------------------------------------------ database schema
\* Constraints the database declares on the tables (data model of the spec).
LikesUnique(p, u) == likes[<<p, u>>] = 0

LikesForeignKeys(p, u) == PostsById(p) # {} /\ UsersById(u) # {}

FollowsUnique(a, b) == follows[<<a, b>>] = 0

FollowsNoSelf(a, b) == a # b

FollowsForeignKeys(a, b) == UsersById(a) # {} /\ UsersById(b) # {}

CommentsForeignKeys(p, u) == PostsById(p) # {} /\ UsersById(u) # {}

\* ON DELETE CASCADE from posts to likes and comments.
CascadeLikes(p) == [k \in LikeKeys |-> IF k[1] = p THEN 0 ELSE likes[k]]

CascadeComments(p) == {c \in comments : c.post_id # p}

\* ------------------------------------------------------ likes/route.ts
\* POST, lines 26-45: the request as it stands at its first awaited call.
Likes_POST_Received(c, p, f) ==
    LET r == [NewReq("Likes_POST", c) EXCEPT !.post = p, !.fault = f]
    IN IF c = Anonymous THEN Respond(r, Unauthorized)
       ELSE IF p = 0 THEN Respond(r, BadRequest)
       ELSE Goto(r, "lookup_user")

\* Likes_POST_Auth without lines 28-32: a request without an identity goes on
\* to the lookup of the caller.
Likes_POST_Auth_NoSessionCheck(c, p, f) ==
    /\ LET r == [NewReq("Likes_POST", c) EXCEPT !.post = p, !.fault = f]
       IN Enter(IF p = 0 THEN Respond(r, BadRequest)
                ELSE Goto(r, "lookup_user"))
    /\ UNCHANGED <<db, ids, hist, ui>>

\* POST, lines 26-44: auth() and validation of the body.
Likes_POST_Auth(c, p, f) ==
    /\ Enter(Likes_POST_Received(c, p, f))
    /\ UNCHANGED <<db, ids, hist, ui>>

\* POST, lines 49-64: users row of the caller.
Likes_POST_LookupUser(r) ==
    /\ r.kind = "Likes_POST" /\ r.pc = "lookup_user"
    /\ UNCHANGED <<db, ids, hist, ui>>
    /\ LET rows == UsersByClerk(r.clerk)
           res == Single(Cardinality(rows), r.fault = "lookup_user")
       IN Advance(r, IF res.error # "" \/ ~res.found THEN Respond(r, NotFound)
                     ELSE [r EXCEPT !.userId = TheRow(rows).id, !.pc = "lookup_post"], 1)

\* POST, lines 66-78: the post must exist.
Likes_POST_LookupPost(r) ==
    /\ r.kind = "Likes_POST" /\ r.pc = "lookup_post"
    /\ UNCHANGED <<db, ids, hist, ui>>
    /\ LET res == Single(Cardinality(PostsById(r.post)), r.fault = "lookup_post")
           r1 == [r EXCEPT !.postSeen = PostSeen(r.post)]
       IN Advance(r, IF res.error # "" \/ ~res.found THEN Respond(r1, NotFound)
                     ELSE Goto(r1, "check"), 1)

\* Likes_POST_Check without lines 97-102: an existing row does not stop the
\* request.
Likes_POST_Check_NoConflict(r) ==
    /\ r.kind = "Likes_POST" /\ r.pc = "check"
    /\ UNCHANGED <<db, ids, hist, ui>>
    /\ LET n == likes[<<r.post, r.userId>>]
           res == Single(n, r.fault = "check")
           r1 == [r EXCEPT !.seen = IF n > 0 THEN "row" ELSE "norow"]
       IN Advance(r, IF res.error # "" /\ res.error # "PGRST116"
                        THEN Respond(r1, InternalServerError)
                     ELSE Goto(r1, "insert"), 1)

\* POST, lines 80-102: duplicate check.
Likes_POST_Check(r) ==
    /\ r.kind = "Likes_POST" /\ r.pc = "check"
    /\ UNCHANGED <<db, ids, hist, ui>>
    /\ LET n == likes[<<r.post, r.userId>>]
           res == Single(n, r.fault = "check")
           r1 == [r EXCEPT !.seen = IF n > 0 THEN "row" ELSE "norow"]
       IN Advance(r, IF res.error # "" /\ res.error # "PGRST116"
                        THEN Respond(r1, InternalServerError)
                     ELSE IF res.found THEN Respond(r1, Conflict)
                     ELSE Goto(r1, "insert"), 1)

\* POST, lines 104-126: insert of the like row.
Likes_POST_Insert(r) ==
    /\ r.kind = "Likes_POST" /\ r.pc = "insert"
    /\ LET k == <<r.post, r.userId>>
           accepted == /\ r.fault # "insert"
                       /\ LikesUnique(r.post, r.userId)
                       /\ LikesForeignKeys(r.post, r.userId)
       IN /\ likes' = IF accepted THEN [likes EXCEPT ![k] = @ + 1] ELSE likes
          /\ UNCHANGED <<users, posts, follows, comments, storage, ids, hist, ui>>
          /\ LET r1 == [r EXCEPT !.postSeen = PostSeen(r.post)]
             IN Advance(r, IF ~accepted THEN Respond(r1, InternalServerError)
                           ELSE Respond(r1, Ok), 1)

\* DELETE, lines 143-161: the request as it stands at its first awaited call.
Likes_DELETE_Received(c, p, f) ==
    LET r == [NewReq("Likes_DELETE", c) EXCEPT !.post = p, !.fault = f]
    IN IF c = Anonymous THEN Respond(r, Unauthorized)
       ELSE IF p = 0 THEN Respond(r, BadRequest)
       ELSE Goto(r, "lookup_user")

\* DELETE, lines 143-161.
Likes_DELETE_Auth(c, p, f) ==
    /\ Enter(Likes_DELETE_Received(c, p, f))
    /\ UNCHANGED <<db, ids, hist, ui>>

\* DELETE, lines 166-181: users row of the caller.
Likes_DELETE_LookupUser(r) ==
    /\ r.kind = "Likes_DELETE" /\ r.pc = "lookup_user"
    /\ UNCHANGED <<db, ids, hist, ui>>
    /\ LET rows == UsersByClerk(r.clerk)
           res == Single(Cardinality(rows), r.fault = "lookup_user")
       IN Advance(r, IF res.error # "" \/ ~res.found THEN Respond(r, NotFound)
                     ELSE [r EXCEPT !.userId = TheRow(rows).id, !.pc = "check"], 1)
\* Likes_DELETE_Check that takes a missing row for a row: the request goes on
\* to the delete.
Likes_DELETE_Check_NoNotFound(r) ==
    /\ r.kind = "Likes_DELETE" /\ r.pc = "check"
    /\ UNCHANGED <<db, ids, hist, ui>>
    /\ LET n == likes[<<r.post, r.userId>>]
           res == Single(n, r.fault = "check")
           r1 == [r EXCEPT !.seen = IF n > 0 THEN "row" ELSE "norow"]
       IN Advance(r, IF res.error # "" /\ res.error # "PGRST116"
                        THEN Respond(r1, InternalServerError)
                     ELSE Goto(r1, "delete"), 1)

\* DELETE, lines 183-211: the like row must exist.
Likes_DELETE_Check(r) ==
    /\ r.kind = "Likes_DELETE" /\ r.pc = "check"
    /\ UNCHANGED <<db, ids, hist, ui>>
    /\ LET n == likes[<<r.post, r.userId>>]
           res == Single(n, r.fault = "check")
           r1 == [r EXCEPT !.seen = IF n > 0 THEN "row" ELSE "norow"]
       IN Advance(r, IF res.error = "PGRST116" THEN Respond(r1, NotFound)
                     ELSE IF res.error # "" THEN Respond(r1, InternalServerError)
                     ELSE IF ~res.found THEN Respond(r1, NotFound)
                     ELSE Goto(r1, "delete"), 1)

\* DELETE, lines 213-231: delete of the rows of (post, user).
Likes_DELETE_Delete(r) ==
    /\ r.kind = "Likes_DELETE" /\ r.pc = "delete"
    /\ LET k == <<r.post, r.userId>>
           failed == r.fault = "delete"
       IN /\ likes' = IF failed THEN likes ELSE [likes EXCEPT ![k] = 0]
          /\ UNCHANGED <<users, posts, follows, comments, storage, ids, hist, ui>>
          /\ Advance(r, IF failed THEN Respond(r, InternalServerError)
                        ELSE Respond(r, Ok), 1)

\* ---------------------------------------------------- follows/route.ts
\* POST, lines 26-44: the request as it stands at its first awaited call.
Follows_POST_Received(c, t, f) ==
    LET r == [NewReq("Follows_POST", c) EXCEPT !.target = t, !.fault = f]
    IN IF c = Anonymous THEN Respond(r, Unauthorized)
       ELSE IF t = "" THEN Respond(r, BadRequest)
       ELSE Goto(r, "lookup_user")

\* POST, lines 26-44: auth() and validation of the body.
Follows_POST_Auth(c, t, f) ==
    /\ Enter(Follows_POST_Received(c, t, f))
    /\ UNCHANGED <<db, ids, hist, ui>>

\* POST, lines 49-64: users row of the caller (the follower).
Follows_POST_LookupUser(r) ==
    /\ r.kind = "Follows_POST" /\ r.pc = "lookup_user"
    /\ UNCHANGED <<db, ids, hist, ui>>
    /\ LET rows == UsersByClerk(r.clerk)
           res == Single(Cardinality(rows), r.fault = "lookup_user")
       IN Advance(r, IF res.error # "" \/ ~res.found THEN Respond(r, NotFound)
                     ELSE [r EXCEPT !.userId = TheRow(rows).id, !.pc = "lookup_target"], 1)
\* IsSelfFollow without the comparison of lines 80-81.
IsSelfFollow_Never(followerId, followingId) == FALSE

\* POST, lines 80-86: nobody follows themselves.
IsSelfFollow(followerId, followingId) == followerId = followingId

\* POST, lines 66-86: the followed user must exist and differ from the caller.
Follows_POST_LookupTarget(r) ==
    /\ r.kind = "Follows_POST" /\ r.pc = "lookup_target"
    /\ UNCHANGED <<db, ids, hist, ui>>
    /\ LET res == Single(Cardinality(UsersById(r.target)), r.fault = "lookup_target")
       IN Advance(r, IF res.error # "" \/ ~res.found THEN Respond(r, NotFound)
                     ELSE IF IsSelfFollow(r.userId, r.target) THEN Respond(r, BadRequest)
                     ELSE Goto(r, "check"), 1)

\* POST, lines 88-110: duplicate check.
Follows_POST_Check(r) ==
    /\ r.kind = "Follows_POST" /\ r.pc = "check"
    /\ UNCHANGED <<db, ids, hist, ui>>
    /\ LET n == follows[<<r.userId, r.target>>]
           res == Single(n, r.fault = "check")
           r1 == [r EXCEPT !.seen = IF n > 0 THEN "row" ELSE "norow"]
       IN Advance(r, IF res.error # "" /\ res.error # "PGRST116"
                        THEN Respond(r1, InternalServerError)
                     ELSE IF res.found THEN Respond(r1, Conflict)
                     ELSE Goto(r1, "insert"), 1)

\* POST, lines 112-134: insert of the follow row.
Follows_POST_Insert(r) ==
    /\ r.kind = "Follows_POST" /\ r.pc = "insert"
    /\ LET k == <<r.userId, r.target>>
           accepted == /\ r.fault # "insert"
                       /\ FollowsUnique(r.userId, r.target)
                       /\ FollowsNoSelf(r.userId, r.target)
                       /\ FollowsForeignKeys(r.userId, r.target)
       IN /\ follows' = IF accepted THEN [follows EXCEPT ![k] = @ + 1] ELSE follows
          /\ UNCHANGED <<users, posts, likes, comments, storage, ids, hist, ui>>
          /\ Advance(r, IF ~accepted THEN Respond(r, InternalServerError)
                        ELSE Respond(r, Ok), 1)

\* DELETE, lines 151-169: the request as it stands at its first awaited call.
Follows_DELETE_Received(c, t, f) ==
    LET r == [NewReq("Follows_DELETE", c) EXCEPT !.target = t, !.fault = f]
    IN IF c = Anonymous THEN Respond(r, Unauthorized)
       ELSE IF t = "" THEN Respond(r, BadRequest)
       ELSE Goto(r, "lookup_user")

\* DELETE, lines 151-169: auth() and validation of the body.
Follows_DELETE_Auth(c, t, f) ==
    /\ Enter(Follows_DELETE_Received(c, t, f))
    /\ UNCHANGED <<db, ids, hist, ui>>

\* DELETE, lines 174-189: users row of the caller.
Follows_DELETE_LookupUser(r) ==
    /\ r.kind = "Follows_DELETE" /\ r.pc = "lookup_user"
    /\ UNCHANGED <<db, ids, hist, ui>>
    /\ LET rows == UsersByClerk(r.clerk)
           res == Single(Cardinality(rows), r.fault = "lookup_user")
       IN Advance(r, IF res.error # "" \/ ~res.found THEN Respond(r, NotFound)
                     ELSE [r EXCEPT !.userId = TheRow(rows).id, !.pc = "check"], 1)

\* Rows of follows with the given follower and followed user; the followed
\* id is whatever string the body held.
FollowRows(a, b) == IF <<a, b>> \in FollowKeys THEN follows[<<a, b>>] ELSE 0

\* DELETE, lines 191-219: the follow row must exist.
Follows_DELETE_Check(r) ==
    /\ r.kind = "Follows_DELETE" /\ r.pc = "check"
    /\ UNCHANGED <<db, ids, hist, ui>>
    /\ LET n == FollowRows(r.userId, r.target)
           res == Single(n, r.fault = "check")
           r1 == [r EXCEPT !.seen = IF n > 0 THEN "row" ELSE "norow"]
       IN Advance(r, IF res.error = "PGRST116" THEN Respond(r1, NotFound)
                     ELSE IF res.error # "" THEN Respond(r1, InternalServerError)
                     ELSE IF ~res.found THEN Respond(r1, NotFound)
                     ELSE Goto(r1, "delete"), 1)

\* DELETE, lines 221-239: delete of the rows of (follower, followed).
Follows_DELETE_Delete(r) ==
    /\ r.kind = "Follows_DELETE" /\ r.pc = "delete"
    /\ LET k == <<r.userId, r.target>>
           failed == r.fault = "delete"
       IN /\ follows' = IF failed THEN follows ELSE [follows EXCEPT ![k] = 0]
          /\ UNCHANGED <<users, posts, likes, comments, storage, ids, hist, ui>>
          /\ Advance(r, IF failed THEN Respond(r, InternalServerError)
                        ELSE Respond(r, Ok), 1)

\* ------------------------------- posts/[postId]/route.ts (part_002)
\* DELETE, lines 208-224: auth() and validation of the path parameter.
Posts_DELETE_Auth(c, p, f) ==
    /\ LET r == [NewReq("Posts_DELETE", c) EXCEPT !.post = p, !.fault = f]
       IN Enter(IF c = Anonymous THEN Respond(r, Unauthorized)
                ELSE IF p = 0 THEN Respond(r, BadRequest)
                ELSE Goto(r, "lookup_user"))
    /\ UNCHANGED <<db, ids, hist, ui>>

\* DELETE, lines 229-244: users row of the caller.
Posts_DELETE_LookupUser(r) ==
    /\ r.kind = "Posts_DELETE" /\ r.pc = "lookup_user"
    /\ UNCHANGED <<db, ids, hist, ui>>
    /\ LET rows == UsersByClerk(r.clerk)
           res == Single(Cardinality(rows), r.fault = "lookup_user")
       IN Advance(r, IF res.error # "" \/ ~res.found THEN Respond(r, NotFound)
                     ELSE [r EXCEPT !.userId = TheRow(rows).id, !.pc = "lookup_post"], 1)
\* IsOwnPost without the comparison of line 276.
IsOwnPost_Anyone(postData, userId) == TRUE

\* DELETE, lines 275-281: only the owner deletes a post.
IsOwnPost(postData, userId) == postData.user_id = userId

\* new URL(image_url) throws unless the string is an absolute URL; image_url
\* is kept as the segments of its path, and the path of an absolute URL
\* starts with a slash, so that its first segment is empty.
ParsesAsURL(image_url) == image_url # <<>> /\ image_url[1] = ""

\* DELETE, lines 291-297: the file path is what follows the path segment
\* 'uploads' of the image URL; <<>> when there is none.
ExtractFilePath(image_url) ==
    LET uploadsIndex == IndexOf(image_url, "uploads")
    IN IF uploadsIndex # 0 /\ uploadsIndex < Len(image_url)
       THEN SubSeq(image_url, uploadsIndex + 1, Len(image_url))
       ELSE <<>>

\* DELETE, lines 246-297: the post must exist and be the caller's; then the
\* file path of its image is taken from image_url.
Posts_DELETE_LookupPost(r) ==
    /\ r.kind = "Posts_DELETE" /\ r.pc = "lookup_post"
    /\ UNCHANGED <<db, ids, hist, ui>>
    /\ LET rows == PostsById(r.post)
           res == Single(Cardinality(rows), r.fault = "lookup_post")
           r1 == [r EXCEPT !.postSeen = PostSeen(r.post)]
       IN Advance(r,
              IF res.error = "PGRST116" THEN Respond(r1, NotFound)
              ELSE IF res.error # "" THEN Respond(r1, InternalServerError)
              ELSE IF ~res.found THEN Respond(r1, NotFound)
              ELSE IF ~IsOwnPost(TheRow(rows), r.userId) THEN Respond(r1, Forbidden)
              ELSE LET url == TheRow(rows).image_url
                       path == IF ParsesAsURL(url) THEN ExtractFilePath(url) ELSE <<>>
                   IN [r1 EXCEPT !.image_url = url, !.filePath = path,
                                !.pc = IF url # <<>> /\ path # <<>>
                                       THEN "remove_image" ELSE "delete"], 1)

\* Posts_DELETE_RemoveImage that answers 500 when the storage refuses.
Posts_DELETE_RemoveImage_Strict(r) ==
    /\ r.kind = "Posts_DELETE" /\ r.pc = "remove_image"
    /\ storage' = IF r.fault = "remove_image" THEN storage
                  ELSE Remove(storage, r.filePath)
    /\ UNCHANGED <<users, posts, likes, follows, comments, ids, hist, ui>>
    /\ Advance(r, IF r.fault = "remove_image" THEN Respond(r, InternalServerError)
                  ELSE Goto(r, "delete"), 1)

\* DELETE, lines 299-309: remove the image; an error is logged only.
Posts_DELETE_RemoveImage(r) ==
    /\ r.kind = "Posts_DELETE" /\ r.pc = "remove_image"
    /\ storage' = IF r.fault = "remove_image" THEN storage
                  ELSE Remove(storage, r.filePath)
    /\ UNCHANGED <<users, posts, likes, follows, comments, ids, hist, ui>>
    /\ Advance(r, Goto(r, "delete"), 1)

\* Posts_DELETE_Delete that removes the post row and leaves the likes and the
\* comments of the post behind.
Posts_DELETE_Delete_PostRowOnly(r) ==
    /\ r.kind = "Posts_DELETE" /\ r.pc = "delete"
    /\ LET failed == r.fault = "delete"
           gone == IF failed THEN {}
                   ELSE {x \in posts : x.id = r.post /\ x.user_id = r.userId}
       IN /\ posts' = posts \ gone
          /\ removedPosts' = removedPosts \cup
                 {[post |-> x.id, owner |-> x.user_id, by |-> r.clerk] : x \in gone}
          /\ UNCHANGED <<users, likes, follows, comments, storage, ids, removedComments, ui>>
          /\ Advance(r, IF failed THEN Respond(r, InternalServerError)
                        ELSE Respond(r, Ok), 1)

\* DELETE, lines 319-338: delete the rows with this id and this owner; the
\* database cascades to the likes and comments of a removed post.
Posts_DELETE_Delete(r) ==
    /\ r.kind = "Posts_DELETE" /\ r.pc = "delete"
    /\ LET failed == r.fault = "delete"
           gone == IF failed THEN {}
                   ELSE {x \in posts : x.id = r.post /\ x.user_id = r.userId}
       IN /\ posts' = posts \ gone
          /\ likes' = IF gone = {} THEN likes ELSE CascadeLikes(r.post)
          /\ comments' = IF gone = {} THEN comments ELSE CascadeComments(r.post)
          /\ removedPosts' = removedPosts \cup
                 {[post |-> x.id, owner |-> x.user_id, by |-> r.clerk] : x \in gone}
          /\ UNCHANGED <<users, follows, storage, ids, removedComments, ui>>
          /\ Advance(r, IF failed THEN Respond(r, InternalServerError)
                        ELSE Respond(r, Ok), 1)

\* ------------------------------------ comments/[commentId]/route.ts
\* DELETE, lines 34-50: auth() and validation of the path parameter.
Comments_DELETE_Auth(c, cid, f) ==
    /\ LET r == [NewReq("Comments_DELETE", c) EXCEPT !.comment = cid, !.fault = f]
       IN Enter(IF c = Anonymous THEN Respond(r, Unauthorized)
                ELSE IF cid = 0 THEN Respond(r, BadRequest)
                ELSE Goto(r, "lookup_user"))
    /\ UNCHANGED <<db, ids, hist, ui>>

\* DELETE, lines 55-70: users row of the caller.
Comments_DELETE_LookupUser(r) ==
    /\ r.kind = "Comments_DELETE" /\ r.pc = "lookup_user"
    /\ UNCHANGED <<db, ids, hist, ui>>
    /\ LET rows == UsersByClerk(r.clerk)
           res == Single(Cardinality(rows), r.fault = "lookup_user")
       IN Advance(r, IF res.error # "" \/ ~res.found THEN Respond(r, NotFound)
                     ELSE [r EXCEPT !.userId = TheRow(rows).id, !.pc = "lookup_comment"], 1)
\* IsOwnComment without the comparison of line 102.
IsOwnComment_Anyone(commentData, userId) == TRUE

\* DELETE, lines 101-110: only the author deletes a comment.
IsOwnComment(commentData, userId) == commentData.user_id = userId

\* DELETE, lines 72-110: the comment must exist and be the caller's.
Comments_DELETE_LookupComment(r) ==
    /\ r.kind = "Comments_DELETE" /\ r.pc = "lookup_comment"
    /\ UNCHANGED <<db, ids, hist, ui>>
    /\ LET rows == CommentsById(r.comment)
           res == Single(Cardinality(rows), r.fault = "lookup_comment")
           r1 == [r EXCEPT !.seen = IF rows # {} THEN "row" ELSE "norow"]
       IN Advance(r,
              IF res.error = "PGRST116" THEN Respond(r1, NotFound)
              ELSE IF res.error # "" THEN Respond(r1, InternalServerError)
              ELSE IF ~res.found THEN Respond(r1, NotFound)
              ELSE IF ~IsOwnComment(TheRow(rows), r.userId) THEN Respond(r1, Forbidden)
              ELSE Goto(r1, "delete"), 1)

\* DELETE, lines 112-133: delete the rows with this id and this author.
Comments_DELETE_Delete(r) ==
    /\ r.kind = "Comments_DELETE" /\ r.pc = "delete"
    /\ LET failed == r.fault = "delete"
           gone == IF failed THEN {}
                   ELSE {x \in comments : x.id = r.comment /\ x.user_id = r.userId}
       IN /\ comments' = comments \ gone
          /\ removedComments' = removedComments \cup
                 {[comment |-> x.id, author |-> x.user_id, by |-> r.clerk] : x \in gone}
          /\ UNCHANGED <<users, posts, likes, follows, storage, ids, removedPosts, ui>>
          /\ Advance(r, IF failed THEN Respond(r, InternalServerError)
                        ELSE Respond(r, Ok), 1)

\* Comment POST requests that may still insert a row.
PendingComments ==
    SumOver(reqs, {r \in DOMAIN reqs : r.kind = "Comments_POST" /\ r.pc # "done"})

\* POST, lines 174-218: auth() and validation of the body; a missing content
\* is rejected like the empty string.
Comments_POST_Auth(c, p, content, f) ==
    /\ nextComment + PendingComments <= MaxComments
    /\ LET trimmedContent == Trim(content)
           r == [NewReq("Comments_POST", c) EXCEPT !.post = p, !.fault = f]
                    @@ [content |-> content, trimmedContent |-> trimmedContent]
       IN Enter(IF c = Anonymous THEN Respond(r, Unauthorized)
                ELSE IF p = 0 THEN Respond(r, BadRequest)
                ELSE IF StrLen(content) = 0 THEN Respond(r, BadRequest)
                ELSE IF StrLen(trimmedContent) = 0 THEN Respond(r, BadRequest)
                ELSE IF StrLen(trimmedContent) > MAX_COMMENT_LENGTH
                     THEN Respond(r, BadRequest)
                ELSE Goto(r, "lookup_user"))
    /\ UNCHANGED <<db, ids, hist, ui>>

\* POST, lines 223-238: users row of the caller.
Comments_POST_LookupUser(r) ==
    /\ r.kind = "Comments_POST" /\ r.pc = "lookup_user"
    /\ UNCHANGED <<db, ids, hist, ui>>
    /\ LET rows == UsersByClerk(r.clerk)
           res == Single(Cardinality(rows), r.fault = "lookup_user")
       IN Advance(r, IF res.error # "" \/ ~res.found THEN Respond(r, NotFound)
                     ELSE [r EXCEPT !.userId = TheRow(rows).id, !.pc = "lookup_post"], 1)

\* POST, lines 240-255: the post must exist.
Comments_POST_LookupPost(r) ==
    /\ r.kind = "Comments_POST" /\ r.pc = "lookup_post"
    /\ UNCHANGED <<db, ids, hist, ui>>
    /\ LET res == Single(Cardinality(PostsById(r.post)), r.fault = "lookup_post")
           r1 == [r EXCEPT !.postSeen = PostSeen(r.post)]
       IN Advance(r, IF res.error # "" \/ ~res.found THEN Respond(r1, NotFound)
                     ELSE Goto(r1, "insert"), 1)
\* Comments_POST_Insert that stores body.content as it came, not trimmedContent.
Comments_POST_Insert_Untrimmed(r) ==
    /\ r.kind = "Comments_POST" /\ r.pc = "insert"
    /\ LET accepted == r.fault # "insert" /\ CommentsForeignKeys(r.post, r.userId)
           row == [id |-> nextComment, post_id |-> r.post, user_id |-> r.userId,
                   content |-> r.content]
       IN /\ comments' = IF accepted THEN comments \cup {row} ELSE comments
          /\ nextComment' = IF accepted THEN nextComment + 1 ELSE nextComment
          /\ UNCHANGED <<users, posts, likes, follows, storage, bucket, nextUser, nextPost,
                         nextFile, hist, ui>>
          /\ LET r1 == [r EXCEPT !.postSeen = PostSeen(r.post)]
             IN Advance(r, IF ~accepted THEN Respond(r1, InternalServerError)
                           ELSE [Respond(r1, Ok) EXCEPT !.comment = nextComment], 1)

\* POST, lines 257-283: insert of the comment row.
Comments_POST_Insert(r) ==
    /\ r.kind = "Comments_POST" /\ r.pc = "insert"
    /\ LET accepted == r.fault # "insert" /\ CommentsForeignKeys(r.post, r.userId)
           row == [id |-> nextComment, post_id |-> r.post, user_id |-> r.userId,
                   content |-> r.trimmedContent]
       IN /\ comments' = IF accepted THEN comments \cup {row} ELSE comments
          /\ nextComment' = IF accepted THEN nextComment + 1 ELSE nextComment
          /\ UNCHANGED <<users, posts, likes, follows, storage, bucket, nextUser, nextPost,
                         nextFile, hist, ui>>
          /\ LET r1 == [r EXCEPT !.postSeen = PostSeen(r.post)]
             IN Advance(r, IF ~accepted THEN Respond(r1, InternalServerError)
                           ELSE [Respond(r1, Ok) EXCEPT !.comment = nextComment], 1)

\* ------------------------------------------------- posts/route.ts
Max(a, b) == IF a > b THEN a ELSE b

Min(a, b) == IF a < b THEN a ELSE b

\* parseInt(searchParams.get(name) || fallback, 10); <<>> is an absent parameter.
ParseInt(param, fallback) == IF param = <<>> THEN fallback ELSE param[1]

\* Rows of S by descending created_at, which is descending id.
RECURSIVE OrderDesc(_)
OrderDesc(S) ==
    IF S = {} THEN <<>>
    ELSE LET top == CHOOSE x \in S : \A y \in S : y.id <= x.id
         IN <<top>> \o OrderDesc(S \ {top})

\* .range(from, to): rows from..to of the result, counted from 0.
Range(rows, from, to) == SubSeq(rows, from + 1, Min(to + 1, Len(rows)))

\* select('id', {count: 'exact', head: true}).range(from, from): the count is
\* the number of all rows the filters match, whatever the range; the server
\* refuses a range whose offset is greater than that number, and the client
\* then yields an error and a null count (<<>>).
CountExact(total, from) == IF from > total THEN <<>> ELSE <<total>>

\* GET, lines 199-210: is there a next page?
HasMore(nextPageCount) == (IF nextPageCount = <<>> THEN 0 ELSE nextPageCount[1]) > 0

\* .limit(n): the first n rows of the result.
Limit(rows, n) == SubSeq(rows, 1, Min(n, Len(rows)))

\* GET, lines 65-80: the caller's users row id, null ("") when the caller is
\* signed out or has no row.
CurrentUserId(c) ==
    IF c # Anonymous /\ UsersByClerk(c) # {} THEN TheRow(UsersByClerk(c)).id ELSE ""

\* GET, lines 127-152: the like rows of the page's posts (none when the query
\* fails, which is only logged), counted per post, and the posts the caller
\* has a like row on.
LikeCount(p, f) ==
    IF f = "likes" THEN 0 ELSE SumOver(likes, {k \in LikeKeys : k[1] = p})

IsLiked(p, currentUserId, f) ==
    /\ f # "likes"
    /\ currentUserId # ""
    /\ <<p, currentUserId>> \in LikeKeys
    /\ likes[<<p, currentUserId>>] > 0
\* PreviewComments without the descending order: the first two rows as stored.
PreviewComments_Unordered(p, f) ==
    IF f = "comments" THEN <<>>
    ELSE LET all == OrderDesc({x \in comments : x.post_id = p})
             rows == Limit([i \in 1..Len(all) |-> all[Len(all) + 1 - i]], 2)
         IN [i \in 1..Len(rows) |-> rows[i].id]

\* GET, lines 154-175: per post, the two newest comments; newest first.
PreviewComments(p, f) ==
    IF f = "comments" THEN <<>>
    ELSE LET rows == Limit(OrderDesc({x \in comments : x.post_id = p}), 2)
         IN [i \in 1..Len(rows) |-> rows[i].id]

\* GET, lines 177-197: the number of comment rows of the post.
TotalComments(p, f) ==
    IF f = "all_comments" THEN 0 ELSE Cardinality({x \in comments : x.post_id = p})

\* GET, lines 213-241: one post of the response.
FeedPost(post, currentUserId, f) ==
    [id |-> post.id, user_id |-> post.user_id,
     like_count |-> LikeCount(post.id, f),
     is_liked |-> IsLiked(post.id, currentUserId, f),
     comments |-> PreviewComments(post.id, f),
     total_comments |-> TotalComments(post.id, f)]

\* GET, lines 52-258, on a database that does not change meanwhile: the
\* request and its response.
Posts_GET_Response(c, q, f) ==
    LET page == Max(1, ParseInt(q.page, 1))
        limit == Min(MaxLimit, Max(1, ParseInt(q.limit, DefaultLimit)))
        offset == (page - 1) * limit
        currentUserId == CurrentUserId(c)
        matching == {x \in posts : q.userId = "" \/ x.user_id = q.userId}
        postsData == Range(OrderDesc(matching), offset, offset + limit - 1)
        \* posts, hasMore and page are the response; limit and matching are
        \* history: the limit in force and the number of posts matched
        body == [posts |-> [i \in 1..Len(postsData) |->
                               FeedPost(postsData[i], currentUserId, f)],
                 hasMore |-> FALSE, page |-> page, limit |-> limit,
                 matching |-> Cardinality(matching)]
        r == [NewReq("Posts_GET", c) EXCEPT !.fault = f] @@ [query |-> q, body |-> body]
    IN IF f = "posts" THEN Respond(r, InternalServerError)
       ELSE IF Len(postsData) = 0 THEN Respond(r, Ok)
       ELSE LET nextPageCount == CountExact(Cardinality(matching), offset + limit)
            IN [Respond(r, Ok) EXCEPT !.body.hasMore = HasMore(nextPageCount)]

Posts_GET(c, q, f) ==
    /\ UNCHANGED <<db, ids, hist, ui>>
    /\ Enter(Posts_GET_Response(c, q, f))

\* Post creations that may still upload a file.
PendingUploads ==
    SumOver(reqs, {r \in DOMAIN reqs : r.kind = "Posts_POST"
                                        /\ r.pc \in {"lookup_user", "upload"}})
\* POST, lines 264-309 and 424-433: auth() and validation of the form. The
\* field image of the form is absent (or the empty string), a text value or a
\* file; of a text value imageFile.type is undefined, and the TypeError of
\* line 286 is caught at line 424.
Posts_POST_Auth(c, form, f) ==
    /\ nextFile + PendingUploads <= MaxPosts
    /\ LET r == [NewReq("Posts_POST", c) EXCEPT !.fault = f] @@ [form |-> form]
       IN Enter(IF c = Anonymous THEN Respond(r, Unauthorized)
                ELSE IF form.image = "absent" THEN Respond(r, BadRequest)
                ELSE IF form.image = "text" THEN Respond(r, InternalServerError)
                ELSE IF ~IsImageType(form.type) THEN Respond(r, BadRequest)
                ELSE IF form.size > MAX_FILE_SIZE THEN Respond(r, BadRequest)
                ELSE IF StrLen(form.caption) > MAX_CAPTION_LENGTH
                     THEN Respond(r, BadRequest)
                ELSE Goto(r, "lookup_user"))
    /\ UNCHANGED <<db, ids, hist, ui>>

\* POST, lines 314-329: users row of the caller.
Posts_POST_LookupUser(r) ==
    /\ r.kind = "Posts_POST" /\ r.pc = "lookup_user"
    /\ UNCHANGED <<db, ids, hist, ui>>
    /\ LET rows == UsersByClerk(r.clerk)
           res == Single(Cardinality(rows), r.fault = "lookup_user")
       IN Advance(r, IF res.error # "" \/ ~res.found THEN Respond(r, NotFound)
                     ELSE [r EXCEPT !.userId = TheRow(rows).id, !.pc = "upload"], 1)
\* Posts_POST_Upload without line 365: the content type stays image/jpeg when
\* the original file is uploaded.
Posts_POST_Upload_AlwaysJpeg(r) ==
    /\ r.kind = "Posts_POST" /\ r.pc = "upload"
    /\ LET filePath == FilePath(r.clerk, nextFile)
           uploadError == \/ r.fault = "upload"
                          \/ \E o \in storage : o.path = filePath
       IN /\ storage' = IF uploadError THEN storage
                        ELSE storage \cup {Object(filePath, "image/jpeg", r.form.resizable)}
          /\ nextFile' = nextFile + 1
          /\ UNCHANGED <<users, posts, likes, follows, comments, bucket, nextUser, nextPost,
                         nextComment, hist, ui>>
          /\ Advance(r, IF uploadError THEN Respond(r, InternalServerError)
                        ELSE [r EXCEPT !.filePath = filePath,
                                       !.image_url = PublicUrl(bucket, filePath),
                                       !.pc = "insert"], 1)

\* POST, lines 334-387: resize to JPEG, or keep the original file when sharp
\* throws; then upload under a fresh file name (upsert: false).
Posts_POST_Upload(r) ==
    /\ r.kind = "Posts_POST" /\ r.pc = "upload"
    /\ LET filePath == FilePath(r.clerk, nextFile)
           contentType == IF r.form.resizable THEN "image/jpeg" ELSE r.form.type
           uploadError == \/ r.fault = "upload"
                          \/ \E o \in storage : o.path = filePath
       IN /\ storage' = IF uploadError THEN storage
                        ELSE storage \cup {Object(filePath, contentType, r.form.resizable)}
          /\ nextFile' = nextFile + 1
          /\ UNCHANGED <<users, posts, likes, follows, comments, bucket, nextUser, nextPost,
                         nextComment, hist, ui>>
          /\ Advance(r, IF uploadError THEN Respond(r, InternalServerError)
                        ELSE [r EXCEPT !.filePath = filePath,
                                       !.image_url = PublicUrl(bucket, filePath),
                                       !.pc = "insert"], 1)

\* POST, lines 393-423: insert of the post row. The fault "cleanup" is an
\* insert that fails and is followed by a removal that fails as well.
Posts_POST_Insert(r) ==
    /\ r.kind = "Posts_POST" /\ r.pc = "insert"
    /\ LET accepted == r.fault \notin {"insert", "cleanup"} /\ UsersById(r.userId) # {}
           row == [id |-> nextPost, user_id |-> r.userId, image_url |-> r.image_url,
                   caption |-> Trim(r.form.caption)]
       IN /\ posts' = IF accepted THEN posts \cup {row} ELSE posts
          /\ nextPost' = IF accepted THEN nextPost + 1 ELSE nextPost
          /\ UNCHANGED <<users, likes, follows, comments, storage, bucket, nextUser, nextComment,
                         nextFile, hist, ui>>
          /\ Advance(r, IF ~accepted THEN Goto(r, "cleanup")
                        ELSE [Respond(r, Ok) EXCEPT !.post = nextPost], 1)

\* POST, lines 404-412: the insert failed; remove the uploaded file. The
\* result of remove() is not read: the answer is 500 whether or not the file
\* is gone.
Posts_POST_Cleanup(r) ==
    /\ r.kind = "Posts_POST" /\ r.pc = "cleanup"
    /\ storage' = IF r.fault = "cleanup" THEN storage ELSE Remove(storage, r.filePath)
    /\ UNCHANGED <<users, posts, likes, follows, comments, ids, hist, ui>>
    /\ Advance(r, Respond(r, InternalServerError), 1)
\* ------------------------------------------------------- identity sync
\* Ids are of two shapes: identity-provider ids and UUIDs of the database
\* (the regular expression of users/[userId]/route.ts 45-47).
NewUserId(n) == "u" \o ToString(n)

Uuids == UserIds \cup {NewUserId(n) : n \in 0..MaxUsers}

IsUUID(id) == id \in Uuids

\* Constraint the database declares on users: one row per clerk_id.
UsersUnique(c) == UsersByClerk(c) = {}

\* The view user_stats: one row per users row.
UserStatsView == users

\* Rows of the view or of the table users that the path parameter names.
UsersNamed(rows, id) ==
    IF IsUUID(id) THEN {u \in rows : u.id = id} ELSE {u \in rows : u.clerk_id = id}

\* upsert({clerk_id, name}, {onConflict: 'clerk_id'}) without the conflict
\* target: a row is inserted whether or not the identity has one.
UpsertUser_AlwaysInsert(c) == users \cup {[id |-> NewUserId(nextUser), clerk_id |-> c]}

\* upsert({clerk_id, name}, {onConflict: 'clerk_id'}): the row of the identity
\* is updated (its name, which the model does not hold), or one is inserted.
UpsertUser(c) ==
    IF UsersUnique(c) THEN users \cup {[id |-> NewUserId(nextUser), clerk_id |-> c]}
    ELSE users

\* The row the upsert returns (.select().single()).
UpsertedRow(c) ==
    IF UsersUnique(c) THEN [id |-> NewUserId(nextUser), clerk_id |-> c]
    ELSE TheRow(UsersByClerk(c))

\* One upsert by request r for identity c, or its failure.
Upsert(r, c, failed, nr) ==
    /\ nextUser <= MaxUsers
    /\ users' = IF failed THEN users ELSE UpsertUser(c)
    /\ nextUser' = IF users' # users THEN nextUser + 1 ELSE nextUser
    /\ UNCHANGED <<posts, likes, follows, comments, storage, bucket, nextPost,
                   nextComment, nextFile, hist, ui>>
    /\ Advance(r, nr, 1)

\* ------------------------------------------ (main)/profile/page.tsx
Redirect(r, location) == [Respond(r, TemporaryRedirect) EXCEPT !.location = location]

ProfileLocation(id) == "/profile/" \o id

\* ProfilePage, lines 94-100: auth().
Profile_Auth(c, f) ==
    /\ LET r == [NewReq("Profile", c) EXCEPT !.fault = f] @@ [location |-> ""]
       IN Enter(IF c = Anonymous THEN Redirect(r, "/") ELSE Goto(r, "lookup"))
    /\ UNCHANGED <<db, ids, hist, ui>>

\* ProfilePage, lines 105-114 and 155-169: users row of the caller.
Profile_Lookup(r) ==
    /\ r.kind = "Profile" /\ r.pc = "lookup"
    /\ UNCHANGED <<db, ids, hist, ui>>
    /\ LET rows == UsersByClerk(r.clerk)
           res == Single(Cardinality(rows), r.fault = "lookup")
       IN Advance(r, IF res.error # "" \/ ~res.found THEN Goto(r, "get_user")
                     ELSE [Redirect(r, ProfileLocation(TheRow(rows).id))
                               EXCEPT !.userId = TheRow(rows).id], 1)

\* syncUserToSupabase, lines 26-32: the identity record; a throw goes to the
\* catch of line 130.
Profile_GetUser(r) ==
    /\ r.kind = "Profile" /\ r.pc = "get_user"
    /\ UNCHANGED <<db, ids, hist, ui>>
    /\ Advance(r, IF r.fault = "get_user" THEN Goto(r, "retry") ELSE Goto(r, "upsert"), 1)

\* syncUserToSupabase, lines 53-82, and ProfilePage, lines 123-126 and
\* 151-169: the upsert; its error is thrown to the catch of line 130.
Profile_Upsert(r) ==
    /\ r.kind = "Profile" /\ r.pc = "upsert"
    /\ LET failed == r.fault = "upsert"
           id == UpsertedRow(r.clerk).id
       IN Upsert(r, r.clerk, failed,
                 IF failed THEN Goto(r, "retry")
                 ELSE [Redirect(r, ProfileLocation(id)) EXCEPT !.userId = id])

\* ProfilePage, lines 134-149: after a failed sync, look once more.
Profile_Retry(r) ==
    /\ r.kind = "Profile" /\ r.pc = "retry"
    /\ UNCHANGED <<db, ids, hist, ui>>
    /\ LET rows == UsersByClerk(r.clerk)
           res == Single(Cardinality(rows), r.fault = "retry")
       IN Advance(r, IF ~res.found THEN Redirect(r, "/")
                     ELSE [Redirect(r, ProfileLocation(TheRow(rows).id))
                               EXCEPT !.userId = TheRow(rows).id], 1)
\* -------------------------------- (main)/profile/[userId]/page.tsx
\* ProfilePage, lines 189-190: the page of the user the path names; profile
\* is userStats.user_id, page what is rendered.
ProfileOf_Enter(c, t, f) ==
    /\ LET r == [NewReq("ProfileOf", c) EXCEPT !.target = t, !.fault = f]
                    @@ [profile |-> "", page |-> "", isFollowing |-> FALSE]
       IN Enter(Goto(r, "stats"))
    /\ UNCHANGED <<db, ids, hist, ui>>

\* Lines 213-221 and 266-282: with userStats at hand, auth(); an anonymous
\* visitor gets the profile at once.
ProfileOf_Fetched(r, id) ==
    IF r.clerk = Anonymous THEN [Respond(r, Ok) EXCEPT !.profile = id, !.page = "profile"]
    ELSE [r EXCEPT !.profile = id, !.pc = "lookup_current"]

\* Lines 266-282: with the caller's user id at hand (or none, ""), the follow
\* status is looked up for a profile that is not the caller's own.
ProfileOf_Current(r, id) ==
    IF id # "" /\ id # r.profile THEN [r EXCEPT !.userId = id, !.pc = "follow_status"]
    ELSE [Respond(r, Ok) EXCEPT !.userId = id, !.page = "profile"]

\* fetchUserProfile, lines 47-77 and 136-153: the row of the view.
ProfileOf_Stats(r) ==
    /\ r.kind = "ProfileOf" /\ r.pc = "stats"
    /\ UNCHANGED <<db, ids, hist, ui>>
    /\ LET rows == UsersNamed(UserStatsView, r.target)
           res == Single(IF r.fault = "stats_norow" THEN 0 ELSE Cardinality(rows),
                         r.fault = "stats")
       IN Advance(r, IF res.error = "PGRST116" THEN Goto(r, "lookup_user")
                     ELSE IF res.error # "" \/ ~res.found
                          THEN [Respond(r, Ok) EXCEPT !.page = "error"]
                     ELSE ProfileOf_Fetched(r, TheRow(rows).id), 1)

\* fetchUserProfile, lines 83-135: the users row and its three counts.
ProfileOf_LookupUser(r) ==
    /\ r.kind = "ProfileOf" /\ r.pc = "lookup_user"
    /\ UNCHANGED <<db, ids, hist, ui>>
    /\ LET rows == UsersNamed(users, r.target)
           res == Single(Cardinality(rows), r.fault = "lookup_user")
       IN IF res.error # "" \/ ~res.found
          THEN Advance(r, [Respond(r, Ok) EXCEPT !.page = "error"], 1)
          ELSE Advance(r, ProfileOf_Fetched(r, TheRow(rows).id), 4)

\* ProfilePage, lines 223-232: users row of the caller.
ProfileOf_LookupCurrent(r) ==
    /\ r.kind = "ProfileOf" /\ r.pc = "lookup_current"
    /\ UNCHANGED <<db, ids, hist, ui>>
    /\ LET rows == UsersByClerk(r.clerk)
           res == Single(Cardinality(rows), r.fault = "lookup_current")
       IN Advance(r, IF res.error # "" \/ ~res.found THEN Goto(r, "get_user")
                     ELSE ProfileOf_Current(r, TheRow(rows).id), 1)

\* ProfilePage, lines 234-238 and 261-263: the identity record; a throw is
\* logged.
ProfileOf_GetUser(r) ==
    /\ r.kind = "ProfileOf" /\ r.pc = "get_user"
    /\ UNCHANGED <<db, ids, hist, ui>>
    /\ Advance(r, IF r.fault = "get_user" THEN ProfileOf_Current(r, "")
                  ELSE Goto(r, "upsert"), 1)

\* ProfilePage, lines 239-260: the upsert; no row returned, no user id.
ProfileOf_Upsert(r) ==
    /\ r.kind = "ProfileOf" /\ r.pc = "upsert"
    /\ LET failed == r.fault = "upsert"
       IN Upsert(r, r.clerk, failed,
                 ProfileOf_Current(r, IF failed THEN "" ELSE UpsertedRow(r.clerk).id))

\* checkFollowStatus, lines 159-187, and ProfilePage, lines 272-282.
ProfileOf_FollowStatus(r) ==
    /\ r.kind = "ProfileOf" /\ r.pc = "follow_status"
    /\ UNCHANGED <<db, ids, hist, ui>>
    /\ LET res == Single(FollowRows(r.userId, r.profile), r.fault = "follow_status")
       IN Advance(r, [Respond(r, Ok) EXCEPT !.page = "profile",
                                            !.isFollowing = res.found], 1)

\* ------------------------------------------ users/[userId]/route.ts
\* GET, lines 32-39: the path parameter.
Users_GET_Enter(c, t, f) ==
    /\ LET r == [NewReq("Users_GET", c) EXCEPT !.target = t, !.fault = f]
       IN Enter(IF t = "" THEN Respond(r, BadRequest) ELSE Goto(r, "stats"))
    /\ UNCHANGED <<db, ids, hist, ui>>

\* GET, lines 42-70 and 203-232: the row of the view.
Users_GET_Stats(r) ==
    /\ r.kind = "Users_GET" /\ r.pc = "stats"
    /\ UNCHANGED <<db, ids, hist, ui>>
    /\ LET rows == UsersNamed(UserStatsView, r.target)
           res == Single(IF r.fault = "stats_norow" THEN 0 ELSE Cardinality(rows),
                         r.fault = "stats")
       IN Advance(r, IF res.error = "PGRST116" THEN Goto(r, "lookup_user")
                     ELSE IF res.error # "" THEN Respond(r, InternalServerError)
                     ELSE IF ~res.found THEN Respond(r, NotFound)
                     ELSE [Respond(r, Ok) EXCEPT !.userId = TheRow(rows).id], 1)

\* MaySync that lets any signed-in caller start the sync of the requested id.
MaySync_AnySignedIn(r) == ~IsUUID(r.target) /\ r.clerk # Anonymous

\* GET, lines 93-97: the sync is tried for an id that is no UUID and is the
\* identity of the caller (auth() of line 95; null for a signed-out caller).
MaySync(r) == ~IsUUID(r.target) /\ r.clerk # Anonymous /\ r.clerk = r.target

\* GET, lines 73-97 and 168-202: the users row; without one, a caller asking
\* for their own identity id goes on to the sync.
Users_GET_LookupUser(r) ==
    /\ r.kind = "Users_GET" /\ r.pc = "lookup_user"
    /\ UNCHANGED <<db, ids, hist, ui>>
    /\ LET rows == UsersNamed(users, r.target)
           res == Single(Cardinality(rows), r.fault = "lookup_user")
       IN IF res.error # "" \/ ~res.found
          THEN Advance(r, IF MaySync(r) THEN Goto(r, "get_user")
                          ELSE Respond(r, NotFound), 1)
          ELSE Advance(r, [Respond(r, Ok) EXCEPT !.userId = TheRow(rows).id], 4)

\* GET, lines 98-101 and 163-174: the identity record; a throw is logged.
Users_GET_GetUser(r) ==
    /\ r.kind = "Users_GET" /\ r.pc = "get_user"
    /\ UNCHANGED <<db, ids, hist, ui>>
    /\ Advance(r, IF r.fault = "get_user" THEN Respond(r, NotFound)
                  ELSE Goto(r, "upsert"), 1)

\* GET, lines 102-120 and 168-174: the upsert; no row returned, 404.
Users_GET_Upsert(r) ==
    /\ r.kind = "Users_GET" /\ r.pc = "upsert"
    /\ LET failed == r.fault = "upsert"
       IN Upsert(r, r.target, failed,
                 IF failed THEN Respond(r, NotFound)
                 ELSE [r EXCEPT !.userId = UpsertedRow(r.target).id, !.pc = "retry_stats"])

\* GET, lines 121-160 and 222-232: the row of the view for the synced user,
\* or else the three counts.
Users_GET_RetryStats(r) ==
    /\ r.kind = "Users_GET" /\ r.pc = "retry_stats"
    /\ UNCHANGED <<db, ids, hist, ui>>
    /\ LET rows == {u \in UserStatsView : u.id = r.userId}
           res == Single(IF r.fault = "stats_norow" THEN 0 ELSE Cardinality(rows),
                         r.fault = "retry_stats")
       IN Advance(r, Respond(r, Ok), IF res.found THEN 1 ELSE 4)

\* ------------------------------------------------------------ responses
\* The response of a finished request leaves the server.
Deliver(r) ==
    /\ r.pc = "done"
    /\ reqs' = Take(reqs, r)
    /\ UNCHANGED <<db, ids, hist, ui>>
\* ------------------------------------------------------- the like button
\* PostCard.tsx 108-158, PostModal.tsx 165-199, PostDetailMobile.tsx 134-168.
\* One mounted component shows one post to one viewer.
LikeComponents == {"PostCard", "PostModal", "PostDetailMobile"}

NoLikeButton ==
    /\ component = "-"
    /\ liked = FALSE
    /\ likeCount = 0
    /\ postProps = [isLiked |-> FALSE, likeCount |-> 0]
    /\ likeClicks = <<>>
    /\ settledLike = <<>>

NoFollowButton ==
    /\ isFollowing = FALSE
    /\ isLoading = FALSE
    /\ followClicks = <<>>
    /\ settledFollow = <<>>

NoScreen ==
    /\ innerWidth = MaxWidth
    /\ cnImpl = "twMerge"

\* PostFeed as it mounts without initialPosts (PostFeed.tsx 63-68); posts is
\* the list of the ids of the posts it holds.
NoFeed ==
    /\ feed = [posts |-> <<>>, loading |-> TRUE, loadingMore |-> FALSE, hasMore |-> TRUE,
               error |-> FALSE, page |-> 0]
    /\ feedCalls = <<>>
    /\ feedTrace = [loaded |-> 0, ended |-> FALSE, settled |-> <<>>]

NoWidgets == NoLikeButton /\ NoFollowButton /\ NoScreen /\ NoFeed

Shown == [liked |-> liked, likeCount |-> likeCount]

\* handleLikeClick up to its await: the values the closure keeps, the state
\* updates, and the request. shown is history: what is displayed once the
\* updates are applied.
LikeClick(c, p) ==
    LET newLiked == ~liked
        newLikeCount == IF newLiked THEN likeCount + 1 ELSE Max(0, likeCount - 1)
    IN [clerk |-> c, post |-> p,
        method |-> IF newLiked THEN "Likes_POST" ELSE "Likes_DELETE",
        previousLiked |-> liked, previousLikeCount |-> likeCount,
        newLiked |-> newLiked, newLikeCount |-> newLikeCount,
        shown |-> [liked |-> newLiked, likeCount |-> newLikeCount]]

handleLikeClick(c, p, f) ==
    /\ component \in LikeComponents
    /\ p # 0
    /\ LET click == LikeClick(c, p)
       IN /\ liked' = click.shown.liked
          /\ likeCount' = click.shown.likeCount
          /\ likeClicks' = Put(likeClicks, click)
          /\ Enter(IF click.method = "Likes_POST" THEN Likes_POST_Received(c, p, f)
                   ELSE Likes_DELETE_Received(c, p, f))
    /\ UNCHANGED <<db, ids, hist, component, postProps, settledLike, followButton, screen,
                   postFeed>>

\* PostFeed.handleLikeUpdate, and PostCard's two effects, each of which runs
\* when its prop has changed.
SyncedFromProps(props) ==
    [liked |-> IF props.isLiked # postProps.isLiked THEN props.isLiked ELSE liked,
     likeCount |-> IF props.likeCount # postProps.likeCount THEN props.likeCount
                   ELSE likeCount]
\* LikeSettled whose catch block restores the flag but not the count.
LikeSettled_FlagOnly(click, ok) ==
    IF ~ok THEN [liked |-> click.previousLiked, likeCount |-> likeCount]
    ELSE IF component = "PostCard"
         THEN SyncedFromProps([isLiked |-> click.newLiked, likeCount |-> click.newLikeCount])
    ELSE Shown

\* handleLikeClick after its await: the response r arrives, or the fetch
\* rejects (lost); on failure the catch block restores the kept values, on
\* success PostCard reports to the feed.
LikeSettled(click, ok) ==
    IF ~ok THEN [liked |-> click.previousLiked, likeCount |-> click.previousLikeCount]
    ELSE IF component = "PostCard"
         THEN SyncedFromProps([isLiked |-> click.newLiked, likeCount |-> click.newLikeCount])
    ELSE Shown

handleLikeClick_Settle(r, click, lost) ==
    /\ r.pc = "done"
    /\ click \in DOMAIN likeClicks
    /\ r.kind = click.method /\ r.clerk = click.clerk /\ r.post = click.post
    /\ LET ok == ~lost /\ r.status \in 200..299
           then == LikeSettled(click, ok)
       IN /\ liked' = then.liked
          /\ likeCount' = then.likeCount
          /\ postProps' = IF ok /\ component = "PostCard"
                          THEN [isLiked |-> click.newLiked, likeCount |-> click.newLikeCount]
                          ELSE postProps
          /\ settledLike' = <<[click |-> click, ok |-> ok, before |-> Shown, after |-> then]>>
    /\ likeClicks' = Take(likeClicks, click)
    /\ reqs' = Take(reqs, r)
    /\ UNCHANGED <<db, ids, hist, component, followButton, screen, postFeed>>
\* ----------------------------------------------------- the follow button
\* FollowButton (src/unnamed/part_007), of one viewer on one profile.
\* handleFollowToggle up to its await, lines 54-85: nothing happens while a
\* run is pending or on the viewer's own profile; otherwise the button is
\* put in its loading state and the request leaves. shown is history: the
\* value of isFollowing once the handler waits.
SelfFollowRefused(currentUserId, targetUserId) ==
    currentUserId # "" /\ currentUserId = targetUserId

handleFollowToggle(c, currentUserId, t, f) ==
    /\ ~isLoading
    /\ ~SelfFollowRefused(currentUserId, t)
    /\ isLoading' = TRUE
    /\ isFollowing' = isFollowing
    /\ followClicks' = <<[clerk |-> c, target |-> t,
                          method |-> IF isFollowing THEN "Follows_DELETE" ELSE "Follows_POST",
                          previous |-> isFollowing, shown |-> isFollowing']>>
    /\ Enter(IF isFollowing THEN Follows_DELETE_Received(c, t, f)
             ELSE Follows_POST_Received(c, t, f))
    /\ settledFollow' = <<>>
    /\ UNCHANGED <<db, ids, hist, likeButton, screen, postFeed>>

\* handleFollowToggle after its await, lines 66-108: the response r arrives or
\* the fetch rejects (lost); isFollowing is set on success only.
FollowSettled(click, ok) == IF ok THEN ~click.previous ELSE isFollowing

handleFollowToggle_Settle(r, lost) ==
    /\ r.pc = "done"
    /\ followClicks # <<>>
    /\ LET click == followClicks[1]
           ok == ~lost /\ r.status \in 200..299
       IN /\ r.kind = click.method /\ r.clerk = click.clerk /\ r.target = click.target
          /\ isFollowing' = FollowSettled(click, ok)
          /\ settledFollow' = <<[click |-> click, ok |-> ok, after |-> isFollowing']>>
    /\ isLoading' = FALSE
    /\ followClicks' = <<>>
    /\ reqs' = Take(reqs, r)
    /\ UNCHANGED <<db, ids, hist, likeButton, screen, postFeed>>
\* ------------------------------------------------------------ the layout
\* Sidebar.tsx 189-205, MobileHeader.tsx 26-38, BottomNav.tsx 51-63 and the
\* main element of the layout (src/unnamed/part_001 42-56). A utility class is
\* the declaration it stands for under its variant: "" always, md from 768px,
\* lg from 1024px.
Class(variant, property, value) ==
    [variant |-> variant, property |-> property, value |-> value]

Breakpoint(variant) == IF variant = "lg" THEN 1024 ELSE IF variant = "md" THEN 768 ELSE 0

SidebarClasses ==
    << Class("", "display", "none"),
       Class("md", "display", "flex"), Class("md", "width", "72px"),
       Class("lg", "width", "244px"),
       Class("", "left", "0px"), Class("", "top", "0px"),
       Class("", "display", "flex") >>

MobileHeaderClasses ==
    << Class("", "display", "flex"), Class("md", "display", "none"),
       Class("", "top", "0px"), Class("", "left", "0px"),
       Class("", "height", "60px"),
       Class("", "display", "flex") >>

BottomNavClasses ==
    << Class("", "display", "flex"), Class("md", "display", "none"),
       Class("", "bottom", "0px"), Class("", "left", "0px"),
       Class("", "height", "50px"),
       Class("", "display", "flex") >>

MainClasses ==
    << Class("lg", "margin-left", "244px"), Class("md", "margin-left", "72px"),
       Class("", "display", "flex") >>

\* cn of @/lib/utils, whose file is not part of the sources: it joins the
\* class names, and when it is the cn of the component library the project
\* uses (tailwind-merge over clsx) it drops a class that a later class with
\* the same variant and the same property overrides.
cn(classes) ==
    IF cnImpl = "twMerge"
    THEN LET kept == {i \in 1..Len(classes) :
                         ~\E j \in (i + 1)..Len(classes) :
                              /\ classes[j].variant = classes[i].variant
                              /\ classes[j].property = classes[i].property}
             RECURSIVE Pick(_)
             Pick(i) == IF i > Len(classes) THEN <<>>
                        ELSE (IF i \in kept THEN <<classes[i]>> ELSE <<>>) \o Pick(i + 1)
         IN Pick(1)
    ELSE classes

\* The cascade: of the declarations of the property that apply at the width,
\* the one of the widest breakpoint wins; among utilities of one variant the
\* style sheet has display: none after display: flex.
Computed(classes, property, width, initial) ==
    LET applying == {i \in 1..Len(classes) :
                        /\ classes[i].property = property
                        /\ width >= Breakpoint(classes[i].variant)}
        Rank(i) == 2 * Breakpoint(classes[i].variant)
                   + (IF classes[i].value = "none" THEN 1 ELSE 0)
    IN IF applying = {} THEN initial
       ELSE classes[CHOOSE i \in applying : \A j \in applying : Rank(j) <= Rank(i)].value

Visible(classes, width) == Computed(cn(classes), "display", width, "block") # "none"

\* The viewport is resized.
Resize(w) ==
    /\ innerWidth' = w
    /\ UNCHANGED <<db, ids, hist, reqs, likeButton, followButton, cnImpl, postFeed>>
\* -------------------------------------------------------- the post feed
\* PostFeed.tsx, as the home page mounts it: no userId, no initialPosts.
\* fetchPosts, lines 72-98: pages of ten.
FeedLimit == 10

fetchPosts(c, pageNum, f) ==
    Posts_GET_Response(c, [page |-> <<pageNum>>, limit |-> <<FeedLimit>>, userId |-> ""], f)

\* What fetchPosts resolves to: the body of an ok response as <<body>>, null
\* as <<>> when the fetch rejects (lost) or the status is not ok.
FetchedData(r, lost) == IF lost \/ r.status \notin 200..299 THEN <<>> ELSE <<r.body>>

PostIdsOf(body) == [i \in 1..Len(body.posts) |-> body.posts[i].id]

\* The response r belongs to the run feedCalls[i].
AnswersCall(r, i) ==
    /\ i \in 1..Len(feedCalls)
    /\ r.pc = "done" /\ r.kind = "Posts_GET"
    /\ r.query.page = <<feedCalls[i].nextPage>>

WithoutCall(i) == SubSeq(feedCalls, 1, i - 1) \o SubSeq(feedCalls, i + 1, Len(feedCalls))

\* History of a run that ended: the page and the end of the list as of the
\* last response applied, and the state before and after this run's updates.
Traced(call, data, after) ==
    [loaded |-> IF data = <<>> THEN feedTrace.loaded
                ELSE IF call.kind = "loadMorePosts" THEN call.nextPage ELSE 1,
     ended |-> IF data = <<>> THEN feedTrace.ended ELSE ~data[1].hasMore,
     settled |-> <<[call |-> call, ok |-> data # <<>>, before |-> feed, after |-> after]>>]

\* Lines 102-120: the effect that loads page 1 when the feed has mounted.
loadInitialPosts(c, f) ==
    /\ feed.loading /\ feedCalls = <<>>
    /\ feed' = [feed EXCEPT !.loading = TRUE, !.error = FALSE]
    /\ feedCalls' = Append(feedCalls, [kind |-> "loadInitialPosts", nextPage |-> 1])
    /\ Enter(fetchPosts(c, 1, f))
    /\ UNCHANGED <<db, ids, hist, likeButton, followButton, screen, feedTrace>>

loadInitialPosts_Settle(r, i, lost) ==
    /\ AnswersCall(r, i) /\ feedCalls[i].kind = "loadInitialPosts"
    /\ LET data == FetchedData(r, lost)
           after == IF data = <<>> THEN [feed EXCEPT !.error = TRUE, !.loading = FALSE]
                    ELSE [feed EXCEPT !.posts = PostIdsOf(data[1]),
                                      !.hasMore = data[1].hasMore,
                                      !.page = 1, !.loading = FALSE]
       IN /\ feed' = after
          /\ feedTrace' = Traced(feedCalls[i], data, after)
    /\ feedCalls' = WithoutCall(i)
    /\ reqs' = Take(reqs, r)
    /\ UNCHANGED <<db, ids, hist, likeButton, followButton, screen>>

\* Lines 211-285: the target of the observer is rendered below a list that
\* is not empty.
TargetRendered == ~(feed.error /\ feed.posts = <<>>) /\ ~feed.loading /\ feed.posts # <<>>

\* MayLoadMore that does not look at loadingMore.
MayLoadMore_WhileLoadingMore ==
    /\ TargetRendered
    /\ feed.hasMore /\ ~feed.loading

\* Lines 141-146 and 124: the observer calls loadMorePosts when the target
\* is in view, and loadMorePosts goes on, unless a load is under way or the
\* list has ended.
MayLoadMore ==
    /\ TargetRendered
    /\ feed.hasMore /\ ~feed.loadingMore /\ ~feed.loading
    /\ ~(feed.loadingMore \/ ~feed.hasMore)

\* Lines 123-128: loadMorePosts up to its await.
loadMorePosts(c, f) ==
    /\ MayLoadMore
    /\ LET nextPage == feed.page + 1
       IN /\ feed' = [feed EXCEPT !.loadingMore = TRUE]
          /\ feedCalls' = Append(feedCalls, [kind |-> "loadMorePosts", nextPage |-> nextPage])
          /\ Enter(fetchPosts(c, nextPage, f))
    /\ UNCHANGED <<db, ids, hist, likeButton, followButton, screen, feedTrace>>

\* Lines 128-137: loadMorePosts after its await.
loadMorePosts_Settle(r, i, lost) ==
    /\ AnswersCall(r, i) /\ feedCalls[i].kind = "loadMorePosts"
    /\ LET data == FetchedData(r, lost)
           after == IF data = <<>> THEN [feed EXCEPT !.error = TRUE, !.loadingMore = FALSE]
                    ELSE [feed EXCEPT !.posts = feed.posts \o PostIdsOf(data[1]),
                                      !.hasMore = data[1].hasMore,
                                      !.page = feedCalls[i].nextPage,
                                      !.loadingMore = FALSE]
       IN /\ feed' = after
          /\ feedTrace' = Traced(feedCalls[i], data, after)
    /\ feedCalls' = WithoutCall(i)
    /\ reqs' = Take(reqs, r)
    /\ UNCHANGED <<db, ids, hist, likeButton, followButton, screen>>

\* Lines 211-234: the retry button, shown instead of the list when a fetch
\* has failed and the list is empty.
retry(c, f) ==
    /\ feed.error /\ feed.posts = <<>>
    /\ feed' = [feed EXCEPT !.error = FALSE, !.page = 0, !.hasMore = TRUE]
    /\ feedCalls' = Append(feedCalls, [kind |-> "retry", nextPage |-> 1])
    /\ Enter(fetchPosts(c, 1, f))
    /\ UNCHANGED <<db, ids, hist, likeButton, followButton, screen, feedTrace>>

retry_Settle(r, i, lost) ==
    /\ AnswersCall(r, i) /\ feedCalls[i].kind = "retry"
    /\ LET data == FetchedData(r, lost)
           after == IF data = <<>> THEN [feed EXCEPT !.error = TRUE]
                    ELSE [feed EXCEPT !.posts = PostIdsOf(data[1]),
                                      !.hasMore = data[1].hasMore, !.page = 1]
       IN /\ feed' = after
          /\ feedTrace' = Traced(feedCalls[i], data, after)
    /\ feedCalls' = WithoutCall(i)
    /\ reqs' = Take(reqs, r)
    /\ UNCHANGED <<db, ids, hist, likeButton, followButton, screen>>

\* ------------------------------------------------------- initial states
SyncedUsers == {[id |-> "ua", clerk_id |-> "clerk_a"],
                [id |-> "ub", clerk_id |-> "clerk_b"]}

\* The row and the object a successful POST /api/posts of owner leaves.
PostRow(p, owner) ==
    [id |-> p, user_id |-> owner.id,
     image_url |-> PublicUrl("uploads", FilePath(owner.clerk_id, p)),
     caption |-> EmptyText]

EmptyTables ==
    /\ users = SyncedUsers
    /\ posts = {}
    /\ likes = [k \in LikeKeys |-> 0]
    /\ follows = [k \in FollowKeys |-> 0]
    /\ comments = {}
    /\ storage = {}
    /\ bucket = "uploads"
    /\ nextUser = 1
    /\ nextPost = 1
    /\ nextComment = 1
    /\ nextFile = 1
    /\ reqs = <<>>
    /\ removedPosts = {}
    /\ removedComments = {}
    /\ NoWidgets

\* ------------------------------------- likes and follows, concurrently
\* The database holds one post of user ua; post id 2 names no post.
ToggleInit ==
    /\ users = SyncedUsers
    /\ posts = {PostRow(1, TheRow(UsersById("ua")))}
    /\ likes = [k \in LikeKeys |-> 0]
    /\ follows = [k \in FollowKeys |-> 0]
    /\ comments = {}
    /\ storage = {Object(FilePath("clerk_a", 1), "image/jpeg", TRUE)}
    /\ bucket = "uploads"
    /\ nextUser = 1
    /\ nextPost = 2
    /\ nextComment = 1
    /\ nextFile = 2
    /\ reqs = <<>>
    /\ removedPosts = {}
    /\ removedComments = {}
    /\ NoWidgets

ToggleClerks == {"clerk_a", "clerk_b"}
TogglePosts == {1}
ToggleTargets == {"ua", "ub"}
ToggleFaults == {"none"}

InFlight == DOMAIN reqs

ToggleNext ==
    \/ \E c \in ToggleClerks, p \in TogglePosts, f \in ToggleFaults : Likes_POST_Auth(c, p, f)
    \/ \E r \in InFlight : Likes_POST_LookupUser(r)
    \/ \E r \in InFlight : Likes_POST_LookupPost(r)
    \/ \E r \in InFlight : Likes_POST_Check(r)
    \/ \E r \in InFlight : Likes_POST_Insert(r)
    \/ \E c \in ToggleClerks, p \in TogglePosts, f \in ToggleFaults : Likes_DELETE_Auth(c, p, f)
    \/ \E r \in InFlight : Likes_DELETE_LookupUser(r)
    \/ \E r \in InFlight : Likes_DELETE_Check(r)
    \/ \E r \in InFlight : Likes_DELETE_Delete(r)
    \/ \E c \in ToggleClerks, t \in ToggleTargets, f \in ToggleFaults : Follows_POST_Auth(c, t, f)
    \/ \E r \in InFlight : Follows_POST_LookupUser(r)
    \/ \E r \in InFlight : Follows_POST_LookupTarget(r)
    \/ \E r \in InFlight : Follows_POST_Check(r)
    \/ \E r \in InFlight : Follows_POST_Insert(r)
    \/ \E c \in ToggleClerks, t \in ToggleTargets, f \in ToggleFaults : Follows_DELETE_Auth(c, t, f)
    \/ \E r \in InFlight : Follows_DELETE_LookupUser(r)
    \/ \E r \in InFlight : Follows_DELETE_Check(r)
    \/ \E r \in InFlight : Follows_DELETE_Delete(r)
    \/ \E r \in InFlight : Deliver(r)

ToggleSpec == ToggleInit /\ [][ToggleNext]_vars

\* ------------------- a post, its likes and its comments, concurrently
ContentClerks == {"clerk_a", "clerk_b"}
ContentPosts == {1, 2}
ContentTexts == {Text(0, 1, 0)}
ContentFaults == {"none"}

ContentNext ==
    \/ \E c \in ContentClerks, p \in ContentPosts, f \in ContentFaults : Posts_DELETE_Auth(c, p, f)
    \/ \E r \in InFlight : Posts_DELETE_LookupUser(r)
    \/ \E r \in InFlight : Posts_DELETE_LookupPost(r)
    \/ \E r \in InFlight : Posts_DELETE_RemoveImage(r)
    \/ \E r \in InFlight : Posts_DELETE_Delete(r)
    \/ \E c \in ContentClerks, p \in ContentPosts, f \in ContentFaults : Likes_POST_Auth(c, p, f)
    \/ \E r \in InFlight : Likes_POST_LookupUser(r)
    \/ \E r \in InFlight : Likes_POST_LookupPost(r)
    \/ \E r \in InFlight : Likes_POST_Check(r)
    \/ \E r \in InFlight : Likes_POST_Insert(r)
    \/ \E c \in ContentClerks, p \in ContentPosts, t \in ContentTexts, f \in ContentFaults :
           Comments_POST_Auth(c, p, t, f)
    \/ \E r \in InFlight : Comments_POST_LookupUser(r)
    \/ \E r \in InFlight : Comments_POST_LookupPost(r)
    \/ \E r \in InFlight : Comments_POST_Insert(r)
    \/ \E r \in InFlight : Deliver(r)

ContentSpec == ToggleInit /\ [][ContentNext]_vars

\* ------------------------- comments written and deleted, concurrently
CommentNext ==
    \/ \E c \in ContentClerks, p \in ContentPosts, t \in ContentTexts, f \in ContentFaults :
           Comments_POST_Auth(c, p, t, f)
    \/ \E r \in InFlight : Comments_POST_LookupUser(r)
    \/ \E r \in InFlight : Comments_POST_LookupPost(r)
    \/ \E r \in InFlight : Comments_POST_Insert(r)
    \/ \E c \in ContentClerks, cid \in CommentIds, f \in ContentFaults :
           Comments_DELETE_Auth(c, cid, f)
    \/ \E r \in InFlight : Comments_DELETE_LookupUser(r)
    \/ \E r \in InFlight : Comments_DELETE_LookupComment(r)
    \/ \E r \in InFlight : Comments_DELETE_Delete(r)
    \/ \E r \in InFlight : Deliver(r)

CommentSpec == ToggleInit /\ [][CommentNext]_vars

\* ------------------------------------------- the feed, one request at a time
FeedClerks == {Anonymous, "clerk_a", "clerk_b"}
FeedForms == {[image |-> "file", type |-> "image/png", size |-> MAX_FILE_SIZE, caption |-> EmptyText,
               resizable |-> TRUE]}
FeedPages == {<<>>} \cup {<<n>> : n \in 0..(MaxPosts + 1)}
FeedLimits == {<<>>, <<MaxLimit + 1>>} \cup {<<n>> : n \in 0..(MaxPosts + 1)}
FeedQueries == [page : FeedPages, limit : FeedLimits, userId : {""} \cup UserIds]
FeedFaults == {"none", "posts"}

Idle == reqs = <<>>

FeedNext ==
    \/ Idle /\ \E c \in FeedClerks, fm \in FeedForms : Posts_POST_Auth(c, fm, "none")
    \/ \E r \in InFlight : Posts_POST_LookupUser(r)
    \/ \E r \in InFlight : Posts_POST_Upload(r)
    \/ \E r \in InFlight : Posts_POST_Insert(r)
    \/ Idle /\ \E c \in FeedClerks, p \in PostIds : Posts_DELETE_Auth(c, p, "none")
    \/ \E r \in InFlight : Posts_DELETE_LookupUser(r)
    \/ \E r \in InFlight : Posts_DELETE_LookupPost(r)
    \/ \E r \in InFlight : Posts_DELETE_RemoveImage(r)
    \/ \E r \in InFlight : Posts_DELETE_Delete(r)
    \/ Idle /\ \E c \in FeedClerks, q \in FeedQueries, f \in FeedFaults : Posts_GET(c, q, f)
    \/ \E r \in InFlight : Deliver(r)

FeedSpec == EmptyTables /\ [][FeedNext]_vars

\* ------------------------ every mutating handler, one request at a time
AuthClerks == {Anonymous, "clerk_a", UnsyncedClerk}
AuthPosts == {0, 1}
AuthTargets == {"", "ua", "ub"}
AuthComments == {0, 1}
AuthTexts == {EmptyText, Text(1, 0, 0), Text(1, 1, 1)}
AuthForms == {[image |-> i, type |-> "image/png", size |-> MAX_FILE_SIZE,
               caption |-> EmptyText, resizable |-> TRUE] : i \in {"absent", "file"}}
AuthFaults == {"none", "lookup_user", "lookup_post", "lookup_target", "lookup_comment",
               "check", "insert", "delete", "remove_image", "upload", "cleanup"}

AuthNext ==
    \/ Idle /\ \E c \in AuthClerks, p \in AuthPosts, f \in AuthFaults : Likes_POST_Auth(c, p, f)
    \/ \E r \in InFlight : Likes_POST_LookupUser(r)
    \/ \E r \in InFlight : Likes_POST_LookupPost(r)
    \/ \E r \in InFlight : Likes_POST_Check(r)
    \/ \E r \in InFlight : Likes_POST_Insert(r)
    \/ Idle /\ \E c \in AuthClerks, p \in AuthPosts, f \in AuthFaults : Likes_DELETE_Auth(c, p, f)
    \/ \E r \in InFlight : Likes_DELETE_LookupUser(r)
    \/ \E r \in InFlight : Likes_DELETE_Check(r)
    \/ \E r \in InFlight : Likes_DELETE_Delete(r)
    \/ Idle /\ \E c \in AuthClerks, t \in AuthTargets, f \in AuthFaults : Follows_POST_Auth(c, t, f)
    \/ \E r \in InFlight : Follows_POST_LookupUser(r)
    \/ \E r \in InFlight : Follows_POST_LookupTarget(r)
    \/ \E r \in InFlight : Follows_POST_Check(r)
    \/ \E r \in InFlight : Follows_POST_Insert(r)
    \/ Idle /\ \E c \in AuthClerks, t \in AuthTargets, f \in AuthFaults : Follows_DELETE_Auth(c, t, f)
    \/ \E r \in InFlight : Follows_DELETE_LookupUser(r)
    \/ \E r \in InFlight : Follows_DELETE_Check(r)
    \/ \E r \in InFlight : Follows_DELETE_Delete(r)
    \/ Idle /\ \E c \in AuthClerks, fm \in AuthForms, f \in AuthFaults : Posts_POST_Auth(c, fm, f)
    \/ \E r \in InFlight : Posts_POST_LookupUser(r)
    \/ \E r \in InFlight : Posts_POST_Upload(r)
    \/ \E r \in InFlight : Posts_POST_Insert(r)
    \/ \E r \in InFlight : Posts_POST_Cleanup(r)
    \/ Idle /\ \E c \in AuthClerks, p \in AuthPosts, f \in AuthFaults : Posts_DELETE_Auth(c, p, f)
    \/ \E r \in InFlight : Posts_DELETE_LookupUser(r)
    \/ \E r \in InFlight : Posts_DELETE_LookupPost(r)
    \/ \E r \in InFlight : Posts_DELETE_RemoveImage(r)
    \/ \E r \in InFlight : Posts_DELETE_Delete(r)
    \/ Idle /\ \E c \in AuthClerks, p \in AuthPosts, t \in AuthTexts, f \in AuthFaults :
           Comments_POST_Auth(c, p, t, f)
    \/ \E r \in InFlight : Comments_POST_LookupUser(r)
    \/ \E r \in InFlight : Comments_POST_LookupPost(r)
    \/ \E r \in InFlight : Comments_POST_Insert(r)
    \/ Idle /\ \E c \in AuthClerks, cid \in AuthComments, f \in AuthFaults :
           Comments_DELETE_Auth(c, cid, f)
    \/ \E r \in InFlight : Comments_DELETE_LookupUser(r)
    \/ \E r \in InFlight : Comments_DELETE_LookupComment(r)
    \/ \E r \in InFlight : Comments_DELETE_Delete(r)
    \/ \E r \in InFlight : Deliver(r)

AuthSpec == EmptyTables /\ [][AuthNext]_vars

Spec == AuthSpec
\* ---------------------------- creation of posts, one request at a time
UploadClerks == {"clerk_a", UnsyncedClerk}
UploadImages == {"absent", "text", "file"}
UploadTypes == {"text/plain", "image/png"}
UploadSizes == {MAX_FILE_SIZE, MAX_FILE_SIZE + 1}
UploadCaptions == {Text(0, MAX_CAPTION_LENGTH, 0), Text(1, MAX_CAPTION_LENGTH - 2, 1),
                   Text(0, MAX_CAPTION_LENGTH + 1, 0), Text(1, MAX_CAPTION_LENGTH - 1, 1)}
UploadForms == [image : UploadImages, type : UploadTypes, size : UploadSizes, caption : UploadCaptions,
                resizable : BOOLEAN]

UploadNext ==
    \/ Idle /\ \E c \in UploadClerks, fm \in UploadForms : Posts_POST_Auth(c, fm, "none")
    \/ \E r \in InFlight : Posts_POST_LookupUser(r)
    \/ \E r \in InFlight : Posts_POST_Upload(r)
    \/ \E r \in InFlight : Posts_POST_Insert(r)
    \/ \E r \in InFlight : Deliver(r)

UploadSpec == EmptyTables /\ [][UploadNext]_vars
\* --------------------------------- comments written, one request at a time
RemarkClerks == {"clerk_a", "clerk_b"}
RemarkPosts == {0, 1}
RemarkTexts == {EmptyText, Text(2, 0, 0), Text(1, 1, 1), Text(1, MAX_COMMENT_LENGTH, 1),
                Text(0, MAX_COMMENT_LENGTH + 1, 0), Text(1, MAX_COMMENT_LENGTH + 1, 0)}

RemarkNext ==
    \/ Idle /\ \E c \in RemarkClerks, p \in RemarkPosts, t \in RemarkTexts :
           Comments_POST_Auth(c, p, t, "none")
    \/ \E r \in InFlight : Comments_POST_LookupUser(r)
    \/ \E r \in InFlight : Comments_POST_LookupPost(r)
    \/ \E r \in InFlight : Comments_POST_Insert(r)
    \/ \E r \in InFlight : Deliver(r)

RemarkSpec == ToggleInit /\ [][RemarkNext]_vars
\* ------------------------------------------- identity sync, concurrently
SyncClerks == {UnsyncedClerk}
SyncTargets == {UnsyncedClerk, "ua"}
SyncFaults == {"none", "get_user", "upsert"}

SyncNext ==
    \/ \E c \in SyncClerks, f \in SyncFaults : Profile_Auth(c, f)
    \/ \E r \in InFlight : Profile_Lookup(r)
    \/ \E r \in InFlight : Profile_GetUser(r)
    \/ \E r \in InFlight : Profile_Upsert(r)
    \/ \E r \in InFlight : Profile_Retry(r)
    \/ \E c \in SyncClerks, t \in SyncTargets, f \in SyncFaults : ProfileOf_Enter(c, t, f)
    \/ \E r \in InFlight : ProfileOf_Stats(r)
    \/ \E r \in InFlight : ProfileOf_LookupUser(r)
    \/ \E r \in InFlight : ProfileOf_LookupCurrent(r)
    \/ \E r \in InFlight : ProfileOf_GetUser(r)
    \/ \E r \in InFlight : ProfileOf_Upsert(r)
    \/ \E r \in InFlight : ProfileOf_FollowStatus(r)
    \/ \E c \in SyncClerks, t \in SyncTargets, f \in SyncFaults : Users_GET_Enter(c, t, f)
    \/ \E r \in InFlight : Users_GET_Stats(r)
    \/ \E r \in InFlight : Users_GET_LookupUser(r)
    \/ \E r \in InFlight : Users_GET_GetUser(r)
    \/ \E r \in InFlight : Users_GET_Upsert(r)
    \/ \E r \in InFlight : Users_GET_RetryStats(r)
    \/ \E r \in InFlight : Deliver(r)

SyncSpec == ToggleInit /\ [][SyncNext]_vars
\* ---------------------------------------------------------------- the feed
\* over posts that have likes and comments: every post exists, up to MaxListed
\* comments are spread over the posts, likes come and the feed is read, one
\* request at a time.

ListOwner(p) == TheRow(UsersById(IF p % 2 = 1 THEN "ua" ELSE "ub"))

ListComments ==
    UNION {{ {[id |-> i, post_id |-> at[i], user_id |-> "ua", content |-> Text(0, 1, 0)]
               : i \in 1..n} : at \in [1..n -> PostIds] } : n \in 0..MaxListed}

ListInit ==
    /\ users = SyncedUsers
    /\ posts = {PostRow(p, ListOwner(p)) : p \in PostIds}
    /\ likes = [k \in LikeKeys |-> 0]
    /\ follows = [k \in FollowKeys |-> 0]
    /\ comments \in ListComments
    /\ storage = {Object(FilePath(ListOwner(p).clerk_id, p), "image/jpeg", TRUE) : p \in PostIds}
    /\ bucket = "uploads"
    /\ nextUser = 1
    /\ nextPost = MaxPosts + 1
    /\ nextComment = Cardinality(comments) + 1
    /\ nextFile = MaxPosts + 1
    /\ reqs = <<>>
    /\ removedPosts = {}
    /\ removedComments = {}
    /\ NoWidgets

ListClerks == {Anonymous, "clerk_a", UnsyncedClerk}
ListLikers == {"clerk_a", "clerk_b"}
ListQueries == [page : {<<1>>, <<2>>}, limit : {<<1>>, <<2>>}, userId : {"", "ua"}]
ListFaults == {"none", "posts", "likes", "comments", "all_comments"}

ListNext ==
    \/ Idle /\ \E c \in ListLikers, p \in PostIds : Likes_POST_Auth(c, p, "none")
    \/ \E r \in InFlight : Likes_POST_LookupUser(r)
    \/ \E r \in InFlight : Likes_POST_LookupPost(r)
    \/ \E r \in InFlight : Likes_POST_Check(r)
    \/ \E r \in InFlight : Likes_POST_Insert(r)
    \/ Idle /\ \E c \in ListClerks, q \in ListQueries, f \in ListFaults : Posts_GET(c, q, f)
    \/ \E r \in InFlight : Deliver(r)

ListSpec == ListInit /\ [][ListNext]_vars
\* ------------------------------------------------------- the like button
\* of one viewer on the one post, which another user may have liked and the
\* viewer may have liked; the viewer's session may have ended.

ButtonClerks == {"clerk_b", Anonymous}

LikeButtonInit ==
    /\ users = SyncedUsers
    /\ posts = {PostRow(1, TheRow(UsersById("ua")))}
    /\ likes \in [LikeKeys -> {0, 1}]
    /\ \A k \in LikeKeys : k[1] # 1 => likes[k] = 0
    /\ follows = [k \in FollowKeys |-> 0]
    /\ comments = {}
    /\ storage = {Object(FilePath("clerk_a", 1), "image/jpeg", TRUE)}
    /\ bucket = "uploads"
    /\ nextUser = 1
    /\ nextPost = 2
    /\ nextComment = 1
    /\ nextFile = 2
    /\ reqs = <<>>
    /\ removedPosts = {}
    /\ removedComments = {}
    /\ component \in LikeComponents
    /\ liked = IsLiked(1, "ub", "none")
    /\ likeCount = LikeCount(1, "none")
    /\ postProps = [isLiked |-> liked, likeCount |-> likeCount]
    /\ likeClicks = <<>>
    /\ settledLike = <<>>
    /\ NoFollowButton
    /\ NoScreen
    /\ NoFeed

LikeButtonNext ==
    \/ \E c \in ButtonClerks : handleLikeClick(c, 1, "none")
    \/ \E r \in InFlight : Likes_POST_LookupUser(r)
    \/ \E r \in InFlight : Likes_POST_LookupPost(r)
    \/ \E r \in InFlight : Likes_POST_Check(r)
    \/ \E r \in InFlight : Likes_POST_Insert(r)
    \/ \E r \in InFlight : Likes_DELETE_LookupUser(r)
    \/ \E r \in InFlight : Likes_DELETE_Check(r)
    \/ \E r \in InFlight : Likes_DELETE_Delete(r)
    \/ \E r \in InFlight, click \in DOMAIN likeClicks, lost \in BOOLEAN :
           handleLikeClick_Settle(r, click, lost)

LikeButtonSpec == LikeButtonInit /\ [][LikeButtonNext]_vars
\* ----------------------------------------------------- the follow button
\* of the viewer "ub" on the profile of "ua", whom the viewer may follow
\* already; initialIsFollowing was read when the page was rendered and may be
\* out of date; the viewer's session may have ended, and a call may fail.

FollowFaults == {"none", "lookup_user", "lookup_target", "check", "insert", "delete"}

FollowButtonInit ==
    /\ users = SyncedUsers
    /\ posts = {}
    /\ likes = [k \in LikeKeys |-> 0]
    /\ follows \in [FollowKeys -> {0, 1}]
    /\ \A k \in FollowKeys : k # <<"ub", "ua">> => follows[k] = 0
    /\ comments = {}
    /\ storage = {}
    /\ bucket = "uploads"
    /\ nextUser = 1
    /\ nextPost = 1
    /\ nextComment = 1
    /\ nextFile = 1
    /\ reqs = <<>>
    /\ removedPosts = {}
    /\ removedComments = {}
    /\ NoLikeButton
    /\ isFollowing \in BOOLEAN
    /\ isLoading = FALSE
    /\ followClicks = <<>>
    /\ settledFollow = <<>>
    /\ NoScreen
    /\ NoFeed

FollowButtonNext ==
    \/ \E c \in ButtonClerks, f \in FollowFaults : handleFollowToggle(c, "ub", "ua", f)
    \/ \E r \in InFlight : Follows_POST_LookupUser(r)
    \/ \E r \in InFlight : Follows_POST_LookupTarget(r)
    \/ \E r \in InFlight : Follows_POST_Check(r)
    \/ \E r \in InFlight : Follows_POST_Insert(r)
    \/ \E r \in InFlight : Follows_DELETE_LookupUser(r)
    \/ \E r \in InFlight : Follows_DELETE_Check(r)
    \/ \E r \in InFlight : Follows_DELETE_Delete(r)
    \/ \E r \in InFlight, lost \in BOOLEAN : handleFollowToggle_Settle(r, lost)

FollowButtonSpec == FollowButtonInit /\ [][FollowButtonNext]_vars
\* ------------------------------------------------------------ the layout
\* at every viewport width from MinWidth to MaxWidth, for either cn.

Widths == MinWidth..MaxWidth

LayoutInit ==
    /\ users = SyncedUsers
    /\ posts = {}
    /\ likes = [k \in LikeKeys |-> 0]
    /\ follows = [k \in FollowKeys |-> 0]
    /\ comments = {}
    /\ storage = {}
    /\ bucket = "uploads"
    /\ nextUser = 1
    /\ nextPost = 1
    /\ nextComment = 1
    /\ nextFile = 1
    /\ reqs = <<>>
    /\ removedPosts = {}
    /\ removedComments = {}
    /\ NoLikeButton
    /\ NoFollowButton
    /\ NoFeed
    /\ innerWidth \in Widths
    /\ cnImpl \in {"join", "twMerge"}

LayoutNext == \E w \in Widths : Resize(w)

LayoutSpec == LayoutInit /\ [][LayoutNext]_vars
\* ------------------------------------------------------- post removal
\* of the one post of "ua", whose image_url is a public URL of the bucket, a
\* URL of another bucket, a URL that ends in the bucket name, a relative
\* reference, or null; the storage may refuse the removal and the database
\* the delete.

RemovalUrls ==
    {PublicUrl("uploads", FilePath("clerk_a", 1)),
     PublicUrl("images", FilePath("clerk_a", 1)),
     PublicUrl("uploads", <<>>),
     <<"uploads">> \o FilePath("clerk_a", 1),
     <<>>}
RemovalClerks == {"clerk_a", "clerk_b"}
RemovalFaults == {"none", "remove_image", "delete"}

RemovalInit ==
    /\ users = SyncedUsers
    /\ \E url \in RemovalUrls :
           posts = {[PostRow(1, TheRow(UsersById("ua"))) EXCEPT !.image_url = url]}
    /\ likes = [k \in LikeKeys |-> 0]
    /\ follows = [k \in FollowKeys |-> 0]
    /\ comments = {}
    /\ storage = {Object(FilePath("clerk_a", 1), "image/jpeg", TRUE)}
    /\ bucket = "uploads"
    /\ nextUser = 1
    /\ nextPost = 2
    /\ nextComment = 1
    /\ nextFile = 2
    /\ reqs = <<>>
    /\ removedPosts = {}
    /\ removedComments = {}
    /\ NoWidgets

RemovalNext ==
    \/ \E c \in RemovalClerks, f \in RemovalFaults : Posts_DELETE_Auth(c, 1, f)
    \/ \E r \in InFlight : Posts_DELETE_LookupUser(r)
    \/ \E r \in InFlight : Posts_DELETE_LookupPost(r)
    \/ \E r \in InFlight : Posts_DELETE_RemoveImage(r)
    \/ \E r \in InFlight : Posts_DELETE_Delete(r)
    \/ \E r \in InFlight : Deliver(r)

RemovalSpec == RemovalInit /\ [][RemovalNext]_vars
\* ------------------------------------------- GET /api/users, concurrently
\* by a signed-out caller, a caller with a users row and a caller without
\* one, for an identity id with and without a row, the id of a row and a
\* UUID that no row has.

ProfileClerks == {Anonymous, "clerk_a", UnsyncedClerk}
ProfileTargets == {UnsyncedClerk, "clerk_a", "ua", NewUserId(0)}
ProfileFaults == {"none", "get_user", "upsert"}

ProfileNext ==
    \/ \E c \in ProfileClerks, t \in ProfileTargets, f \in ProfileFaults : Users_GET_Enter(c, t, f)
    \/ \E r \in InFlight : Users_GET_Stats(r)
    \/ \E r \in InFlight : Users_GET_LookupUser(r)
    \/ \E r \in InFlight : Users_GET_GetUser(r)
    \/ \E r \in InFlight : Users_GET_Upsert(r)
    \/ \E r \in InFlight : Users_GET_RetryStats(r)
    \/ \E r \in InFlight : Deliver(r)

ProfileSpec == ToggleInit /\ [][ProfileNext]_vars
\* ----------------------------------- posts created, with failing calls
CreationClerks == {"clerk_a", "clerk_b"}
CreationForms == {[image |-> "file", type |-> "image/png", size |-> MAX_FILE_SIZE,
                   caption |-> EmptyText, resizable |-> b] : b \in BOOLEAN}
CreationFaults == {"none", "lookup_user", "upload", "insert", "cleanup"}

CreationNext ==
    \/ \E c \in CreationClerks, fm \in CreationForms, f \in CreationFaults :
           Posts_POST_Auth(c, fm, f)
    \/ \E r \in InFlight : Posts_POST_LookupUser(r)
    \/ \E r \in InFlight : Posts_POST_Upload(r)
    \/ \E r \in InFlight : Posts_POST_Insert(r)
    \/ \E r \in InFlight : Posts_POST_Cleanup(r)
    \/ \E r \in InFlight : Deliver(r)

CreationSpec == EmptyTables /\ [][CreationNext]_vars
\* --------------------------- posts created and deleted, concurrently
LifecycleClerks == {"clerk_a", "clerk_b"}
LifecyclePosts == 1..MaxPosts
LifecycleForm == [image |-> "file", type |-> "image/png", size |-> MAX_FILE_SIZE,
                  caption |-> EmptyText, resizable |-> TRUE]
LifecycleFaults == {"none", "remove_image", "delete"}

LifecycleNext ==
    \/ \E c \in LifecycleClerks : Posts_POST_Auth(c, LifecycleForm, "none")
    \/ \E r \in InFlight : Posts_POST_LookupUser(r)
    \/ \E r \in InFlight : Posts_POST_Upload(r)
    \/ \E r \in InFlight : Posts_POST_Insert(r)
    \/ \E c \in LifecycleClerks, p \in LifecyclePosts, f \in LifecycleFaults :
           Posts_DELETE_Auth(c, p, f)
    \/ \E r \in InFlight : Posts_DELETE_LookupUser(r)
    \/ \E r \in InFlight : Posts_DELETE_LookupPost(r)
    \/ \E r \in InFlight : Posts_DELETE_RemoveImage(r)
    \/ \E r \in InFlight : Posts_DELETE_Delete(r)
    \/ \E r \in InFlight : Deliver(r)

LifecycleSpec == EmptyTables /\ [][LifecycleNext]_vars
\* ------------- posts created and deleted under a configured bucket name
\* NEXT_PUBLIC_STORAGE_BUCKET is unset or 'uploads', or names another bucket.
BucketNames == {"uploads", "images"}

BucketInit ==
    /\ users = SyncedUsers
    /\ posts = {}
    /\ likes = [k \in LikeKeys |-> 0]
    /\ follows = [k \in FollowKeys |-> 0]
    /\ comments = {}
    /\ storage = {}
    /\ bucket \in BucketNames
    /\ nextUser = 1
    /\ nextPost = 1
    /\ nextComment = 1
    /\ nextFile = 1
    /\ reqs = <<>>
    /\ removedPosts = {}
    /\ removedComments = {}
    /\ NoWidgets

BucketSpec == BucketInit /\ [][LifecycleNext]_vars
\* ------------------ like and unlike requests, every response kept
\* The post of "ua" is liked by "ub" and not by "ua"; at most MaxInFlight
\* requests are made, and their responses stay with the requests.
TallyLikes == [k \in LikeKeys |-> IF k = <<1, "ub">> THEN 1 ELSE 0]

TallyInit ==
    /\ users = SyncedUsers
    /\ posts = {PostRow(1, TheRow(UsersById("ua")))}
    /\ likes = TallyLikes
    /\ follows = [k \in FollowKeys |-> 0]
    /\ comments = {}
    /\ storage = {Object(FilePath("clerk_a", 1), "image/jpeg", TRUE)}
    /\ bucket = "uploads"
    /\ nextUser = 1
    /\ nextPost = 2
    /\ nextComment = 1
    /\ nextFile = 2
    /\ reqs = <<>>
    /\ removedPosts = {}
    /\ removedComments = {}
    /\ NoWidgets

TallyNext ==
    \/ \E c \in ToggleClerks, p \in TogglePosts : Likes_POST_Auth(c, p, "none")
    \/ \E r \in InFlight : Likes_POST_LookupUser(r)
    \/ \E r \in InFlight : Likes_POST_LookupPost(r)
    \/ \E r \in InFlight : Likes_POST_Check(r)
    \/ \E r \in InFlight : Likes_POST_Insert(r)
    \/ \E c \in ToggleClerks, p \in TogglePosts : Likes_DELETE_Auth(c, p, "none")
    \/ \E r \in InFlight : Likes_DELETE_LookupUser(r)
    \/ \E r \in InFlight : Likes_DELETE_Check(r)
    \/ \E r \in InFlight : Likes_DELETE_Delete(r)

TallySpec == TallyInit /\ [][TallyNext]_vars
\* ------------------- the feed of one viewer, while posts come and go
\* The database holds one post more than a page; the viewer scrolls, creates
\* posts, and the owner of the older posts deletes some, one creation or
\* deletion at a time.
FeedViewer == "clerk_b"
ScrollOwner == "ua"
ScrollPosts == 1..(FeedLimit + 1)
ScrollDeleted == {1, FeedLimit}
ScrollFaults == {"none", "posts"}

\* No creation and no deletion is under way.
OnlyFetches == \A r \in InFlight : r.kind = "Posts_GET"

ScrollInit ==
    /\ users = SyncedUsers
    /\ posts = {PostRow(p, TheRow(UsersById(ScrollOwner))) : p \in ScrollPosts}
    /\ likes = [k \in LikeKeys |-> 0]
    /\ follows = [k \in FollowKeys |-> 0]
    /\ comments = {}
    /\ storage = {Object(FilePath("clerk_a", p), "image/jpeg", TRUE) : p \in ScrollPosts}
    /\ bucket = "uploads"
    /\ nextUser = 1
    /\ nextPost = FeedLimit + 2
    /\ nextComment = 1
    /\ nextFile = 1
    /\ reqs = <<>>
    /\ removedPosts = {}
    /\ removedComments = {}
    /\ NoWidgets

ScrollNext ==
    \/ \E f \in ScrollFaults : loadInitialPosts(FeedViewer, f)
    \/ \E r \in InFlight, i \in 1..Len(feedCalls), lost \in BOOLEAN :
           loadInitialPosts_Settle(r, i, lost)
    \/ \E f \in ScrollFaults : loadMorePosts(FeedViewer, f)
    \/ \E r \in InFlight, i \in 1..Len(feedCalls), lost \in BOOLEAN :
           loadMorePosts_Settle(r, i, lost)
    \/ \E f \in ScrollFaults : retry(FeedViewer, f)
    \/ \E r \in InFlight, i \in 1..Len(feedCalls), lost \in BOOLEAN : retry_Settle(r, i, lost)
    \/ OnlyFetches /\ Posts_POST_Auth(FeedViewer, LifecycleForm, "none")
    \/ \E r \in InFlight : Posts_POST_LookupUser(r)
    \/ \E r \in InFlight : Posts_POST_Upload(r)
    \/ \E r \in InFlight : Posts_POST_Insert(r)
    \/ OnlyFetches /\ \E p \in ScrollDeleted : Posts_DELETE_Auth("clerk_a", p, "none")
    \/ \E r \in InFlight : Posts_DELETE_LookupUser(r)
    \/ \E r \in InFlight : Posts_DELETE_LookupPost(r)
    \/ \E r \in InFlight : Posts_DELETE_RemoveImage(r)
    \/ \E r \in InFlight : Posts_DELETE_Delete(r)
    \/ \E r \in InFlight : r.kind # "Posts_GET" /\ Deliver(r)

ScrollSpec == ScrollInit /\ [][ScrollNext]_vars

\* ================================================================ claims
Done == {r \in InFlight : r.pc = "done"}

\* C1: a POST /api/likes (POST /api/follows) whose existence check is
\* performed while the like (follow) row exists is answered with 409 and
\* writes nothing.
C1_ExistingRowIsConflict ==
    \A r \in InFlight :
        (r.kind \in {"Likes_POST", "Follows_POST"} /\ r.seen = "row" /\ r.fault # "check")
            => (r.pc = "done" /\ r.status = Conflict /\ ~r.wrote)

\* C1: a like and a follow were both refused as duplicates.
C1_Witness ==
    /\ \E r \in Done : r.kind = "Likes_POST" /\ r.seen = "row" /\ r.status = Conflict
    /\ \E r \in Done : r.kind = "Follows_POST" /\ r.seen = "row" /\ r.status = Conflict

\* C2: whatever the interleaving of POST /api/likes requests of one user for
\* one post, the likes table holds at most one row for the pair, and every
\* such request that reached the duplicate check and did not create the row
\* is answered with 409.
C2_OneRowAndLosersGetConflict ==
    /\ \A k \in LikeKeys : likes[k] <= 1
    /\ \A r \in Done :
           (r.kind = "Likes_POST" /\ r.seen # "-" /\ r.fault = "none" /\ ~r.wrote)
               => r.status = Conflict

\* The owner of every post the database holds or held.
PostOwners ==
    {[post |-> x.id, owner |-> x.user_id] : x \in posts}
        \cup {[post |-> x.post, owner |-> x.owner] : x \in removedPosts}

\* C3: a DELETE of a post by an authenticated user who is not its owner is
\* answered with 403 and writes nothing (post row, image, likes and comments
\* stay), and every post row that was removed was removed by a DELETE of its
\* owner.
C3_OnlyTheOwnerDeletesAPost ==
    /\ \A r \in Done :
           (/\ r.kind = "Posts_DELETE" /\ r.postSeen = "row" /\ r.fault = "none"
            /\ [post |-> r.post, owner |-> r.userId] \notin PostOwners)
               => (r.status = Forbidden /\ ~r.wrote)
    /\ \A x \in removedPosts :
           \E u \in users : u.clerk_id = x.by /\ u.id = x.owner

\* C3: a stranger's DELETE was refused, and the owner's DELETE removed the post.
C3_Witness ==
    /\ \E r \in Done : /\ r.kind = "Posts_DELETE" /\ r.status = Forbidden
                       /\ [post |-> r.post, owner |-> r.userId] \notin PostOwners
    /\ removedPosts # {}

\* C4: GET /api/posts answers hasMore = false exactly when at most page * limit
\* posts match the filter, and hasMore = true otherwise.
C4_HasMoreIffPostsBeyondThePage ==
    \A r \in Done :
        (r.kind = "Posts_GET" /\ r.status = Ok)
            => (r.body.hasMore <=> r.body.matching > r.body.page * r.body.limit)

\* C5: once a DELETE of a post has answered success, the post row is absent
\* and no like row and no comment row references the post.
C5_DeletedPostLeavesNoRows ==
    \A r \in Done :
        (r.kind = "Posts_DELETE" /\ r.status = Ok)
            => /\ PostsById(r.post) = {}
               /\ \A u \in UserIds : likes[<<r.post, u>>] = 0
               /\ \A c \in comments : c.post_id # r.post

\* C5: a post was deleted that had been liked, and a like or a comment that
\* raced with the deletion was refused by the database.
C5_Witness ==
    /\ \E r \in Done : r.kind = "Posts_DELETE" /\ r.status = Ok /\ r.wrote
    /\ \E r \in Done : /\ r.kind \in {"Likes_POST", "Comments_POST"}
                       /\ r.pc = "done" /\ r.postSeen = "norow"
                       /\ r.status = InternalServerError

\* The author of every comment the database holds or held.
CommentAuthors ==
    {[comment |-> x.id, author |-> x.user_id] : x \in comments}
        \cup {[comment |-> x.comment, author |-> x.author] : x \in removedComments}

\* C6: a DELETE of a comment by an authenticated user who is not its author is
\* answered with 403 and writes nothing, and every comment row that a DELETE
\* of a comment removed was removed by a request of its author.
C6_OnlyTheAuthorDeletesAComment ==
    /\ \A r \in Done :
           (/\ r.kind = "Comments_DELETE" /\ r.seen = "row" /\ r.fault = "none"
            /\ [comment |-> r.comment, author |-> r.userId] \notin CommentAuthors)
               => (r.status = Forbidden /\ ~r.wrote)
    /\ \A x \in removedComments :
           \E u \in users : u.clerk_id = x.by /\ u.id = x.author

\* C6: a stranger's DELETE was refused while the comment was there, and an
\* author removed a comment.
C6_Witness ==
    /\ \E r \in Done : /\ r.kind = "Comments_DELETE" /\ r.status = Forbidden
                       /\ CommentsById(r.comment) # {}
    /\ removedComments # {}

\* C7: no follow row has the follower as the followed user, and a POST
\* /api/follows naming the caller's own user id is answered with 400 and
\* writes nothing.
C7_NobodyFollowsThemselves ==
    /\ \A u \in UserIds : follows[<<u, u>>] = 0
    /\ \A r \in InFlight :
           (/\ r.kind = "Follows_POST" /\ r.userId # "" /\ r.target = r.userId
            /\ r.pc # "lookup_target" /\ r.fault = "none")
               => (r.pc = "done" /\ r.status = BadRequest /\ ~r.wrote)

\* C7: a self-follow was refused while other follow rows exist.
C7_Witness ==
    /\ \E r \in Done : /\ r.kind = "Follows_POST" /\ r.target = r.userId
                       /\ r.status = BadRequest
    /\ \E k \in FollowKeys : follows[k] > 0

\* C8: every like row and every comment row references a post row and a user
\* row that exist, and a POST /api/likes or POST /api/comments whose post was
\* absent when the handler last called the database is answered with 404 and
\* writes nothing.
C8_RowsReferToPostsAndMissingPostIs404 ==
    /\ \A k \in LikeKeys :
           likes[k] > 0 => (PostsById(k[1]) # {} /\ UsersById(k[2]) # {})
    /\ \A c \in comments : PostsById(c.post_id) # {} /\ UsersById(c.user_id) # {}
    /\ \A r \in Done :
           (/\ r.kind \in {"Likes_POST", "Comments_POST"}
            /\ r.postSeen = "norow" /\ r.fault = "none")
               => (r.status = NotFound /\ ~r.wrote)

\* C9: a DELETE /api/likes (DELETE /api/follows) whose existence check is
\* performed while the pair has no row is answered with 404 and writes nothing.
C9_MissingRowIsNotFound ==
    \A r \in InFlight :
        (/\ r.kind \in {"Likes_DELETE", "Follows_DELETE"}
         /\ r.seen = "norow" /\ r.fault # "check")
            => (r.pc = "done" /\ r.status = NotFound /\ ~r.wrote)

\* C9: an unlike and an unfollow were both answered 404 for want of a row.
C9_Witness ==
    /\ \E r \in Done : r.kind = "Likes_DELETE" /\ r.seen = "norow" /\ r.status = NotFound
    /\ \E r \in Done : r.kind = "Follows_DELETE" /\ r.seen = "norow" /\ r.status = NotFound

MutatingKinds == {"Likes_POST", "Likes_DELETE", "Follows_POST", "Follows_DELETE",
                  "Posts_POST", "Posts_DELETE", "Comments_POST", "Comments_DELETE"}

\* C10: a mutating handler called without an authenticated identity answers
\* 401 without having issued a database or storage call or written anything.
C10_AnonymousIsUnauthorized ==
    \A r \in InFlight :
        (r.kind \in MutatingKinds /\ r.clerk = Anonymous)
            => (r.pc = "done" /\ r.status = Unauthorized /\ r.calls = 0 /\ ~r.wrote)

\* C10: an anonymous DELETE of a post that exists was answered 401.
C10_Witness ==
    \E r \in Done : /\ r.kind = "Posts_DELETE" /\ r.clerk = Anonymous
                    /\ r.status = Unauthorized /\ PostsById(r.post) # {}

\* The form of a POST /api/posts that the limits of the spec admit: an image
\* file of at most 5 MB and a caption of at most 2200 characters.
AdmittedForm(form) ==
    /\ form.image = "file"
    /\ form.type \in {"image/png", "image/jpeg"}
    /\ form.size <= 5 * 1024 * 1024
    /\ StrLen(form.caption) <= 2200

\* C11: a POST /api/posts of a signed-in caller whose form has no image, a
\* file that is no image, more than 5 MB or a caption of more than 2200
\* characters is answered with 400 without a call issued or a row or object
\* written; a form within the limits (5 MB and 2200 characters included) is
\* never answered with 400 and creates the post for a caller with a users row;
\* every stored caption has at most 2200 characters.
C11_PostLimits ==
    /\ \A r \in InFlight :
           (r.kind = "Posts_POST" /\ r.clerk # Anonymous)
               => IF AdmittedForm(r.form)
                  THEN /\ r.status # BadRequest
                       /\ (r.pc = "done" /\ r.clerk \in SyncedClerks /\ r.fault = "none")
                              => r.status = Ok
                  ELSE r.pc = "done" /\ r.status = BadRequest /\ r.calls = 0 /\ ~r.wrote
    /\ \A x \in posts : StrLen(x.caption) <= 2200

\* C12: a POST /api/comments of a signed-in caller naming a post whose content
\* is missing, empty after trimming or longer than 2200 characters after
\* trimming is answered with 400 without a call issued or a row written; any
\* other content is never answered with 400 and is stored trimmed; every
\* comment row's content has no leading or trailing white space and between 1
\* and 2200 characters.
C12_CommentsAreTrimmedAndBounded ==
    /\ \A r \in InFlight :
           (r.kind = "Comments_POST" /\ r.clerk # Anonymous /\ r.post # 0)
               => IF r.content.core = 0 \/ r.content.core > 2200
                  THEN r.pc = "done" /\ r.status = BadRequest /\ r.calls = 0 /\ ~r.wrote
                  ELSE /\ r.status # BadRequest
                       /\ (r.pc = "done" /\ r.status = Ok)
                              => \E x \in comments :
                                     /\ x.id = r.comment
                                     /\ x.content = Text(0, r.content.core, 0)
    /\ \A x \in comments :
           /\ x.content.lead = 0 /\ x.content.trail = 0
           /\ StrLen(x.content) >= 1 /\ StrLen(x.content) <= 2200

\* C12: a comment of 2200 characters between two white-space characters was
\* stored as its 2200 characters.
C12_Witness ==
    \E r \in Done :
        /\ r.kind = "Comments_POST" /\ r.status = Ok /\ StrLen(r.content) = 2202
        /\ \E x \in comments : x.id = r.comment /\ StrLen(x.content) = 2200

\* C13: a POST /api/posts that answered success has stored its object: the
\* resized JPEG with content type image/jpeg when the resize succeeded, the
\* original file with its own content type when it failed, and the post row
\* refers to it; a failing resize does not make the request fail.
C13_ResizeFallsBackToTheOriginal ==
    \A r \in Done :
        r.kind = "Posts_POST"
            => /\ (/\ AdmittedForm(r.form) /\ ~r.form.resizable
                   /\ r.clerk \in SyncedClerks /\ r.fault = "none") => r.status = Ok
               /\ r.status = Ok
                      => /\ Object(r.filePath,
                                   IF r.form.resizable THEN "image/jpeg" ELSE r.form.type,
                                   r.form.resizable) \in storage
                         /\ \E x \in posts :
                                x.id = r.post /\ x.image_url = PublicUrl(bucket, r.filePath)

\* C13: a post whose image could not be resized was created with its PNG file,
\* next to a post whose image was resized.
C13_Witness ==
    /\ \E r \in Done : /\ r.kind = "Posts_POST" /\ r.status = Ok /\ ~r.form.resizable
                       /\ \E o \in storage : /\ o.path = r.filePath /\ ~o.resized
                                             /\ o.contentType = "image/png"
    /\ \E o \in storage : o.resized /\ o.contentType = "image/jpeg"

\* The identity a request of the sync resolves, and whether it resolves one.
SyncIdentity(r) == IF r.kind = "Users_GET" THEN r.target ELSE r.clerk

Synced ==
    {r \in InFlight : /\ r.kind \in {"Profile", "ProfileOf", "Users_GET"}
                      /\ ~IsUUID(SyncIdentity(r)) /\ r.userId # ""}

\* C14: however the runs of the identity sync of the three sites interleave,
\* an identity has at most one users row, a run that completed its upsert
\* leaves exactly one, and all runs for one identity yield the id of that row.
C14_SyncIsIdempotent ==
    /\ \A c \in SyncedClerks \cup {UnsyncedClerk} : Cardinality(UsersByClerk(c)) <= 1
    /\ \A r \in Synced :
           /\ Cardinality(UsersByClerk(SyncIdentity(r))) = 1
           /\ r.userId = TheRow(UsersByClerk(SyncIdentity(r))).id
    /\ \A r1, r2 \in Synced : SyncIdentity(r1) = SyncIdentity(r2) => r1.userId = r2.userId
    /\ \A r \in Done : (r.kind = "Profile" /\ r.clerk # Anonymous /\ r.fault = "none")
                           => r \in Synced

\* C14: the /profile page and GET /api/users both ran the upsert for the
\* identity without a row, each after its lookup had found none, and one row
\* is there.
C14_Witness ==
    /\ \E r \in Done : r.kind = "Profile" /\ r.clerk = UnsyncedClerk /\ r.calls = 3
                       /\ r.userId # ""
    /\ \E r \in Done : r.kind = "Users_GET" /\ r.target = UnsyncedClerk /\ r.calls >= 5
                       /\ r.userId # ""
    /\ Cardinality(UsersByClerk(UnsyncedClerk)) = 1


\* The rows a feed request with the given filter matches, newest first.
Ranked(userId) == OrderDesc({x \in posts : userId = "" \/ x.user_id = userId})

\* What the feed owes for one post row, read off the tables.
Listed(post, c) ==
    [id |-> post.id, user_id |-> post.user_id,
     like_count |-> SumOver(likes, {k \in LikeKeys : k[1] = post.id}),
     is_liked |-> \E u \in UsersByClerk(c) :
                     <<post.id, u.id>> \in LikeKeys /\ likes[<<post.id, u.id>>] > 0,
     comments |-> LET mine == {x \in comments : x.post_id = post.id}
                      newest == {x \in mine : Cardinality({y \in mine : y.id > x.id}) < 2}
                      rows == OrderDesc(newest)
                  IN [i \in 1..Len(rows) |-> rows[i].id],
     total_comments |-> Cardinality({x \in comments : x.post_id = post.id})]

\* C15: a feed request for page p with page size L that meets no failure
\* answers with exactly the posts at ranks (p-1)*L .. p*L-1 of the matching
\* posts by descending creation time, each with the number of its like rows,
\* whether the caller has a like row on it, its at most two newest comments
\* and the number of its comment rows.
C15_FeedPageAndCounts ==
    \A r \in Done :
        (r.kind = "Posts_GET" /\ r.fault = "none")
            => /\ r.status = Ok
               /\ LET ranked == Ranked(r.query.userId)
                      first == (r.body.page - 1) * r.body.limit + 1
                      last == Min(r.body.page * r.body.limit, Len(ranked))
                  IN /\ Len(r.body.posts) = Max(0, last - first + 1)
                     /\ \A i \in 1..Len(r.body.posts) :
                            r.body.posts[i] = Listed(ranked[first + i - 1], r.clerk)

C15_Witness ==
    \E r \in Done :
        /\ r.kind = "Posts_GET" /\ r.fault = "none" /\ r.status = Ok
        /\ r.body.page = 2 /\ Len(r.body.posts) = 1
        /\ \E i \in 1..Len(r.body.posts) :
               /\ r.body.posts[i].is_liked
               /\ r.body.posts[i].like_count = 2
               /\ Len(r.body.posts[i].comments) = 2
               /\ r.body.posts[i].total_comments = 3


\* C16: a click on the like button changes the displayed liked flag and like
\* count at once, while its request is still without a response: every run
\* of the handler that awaits its response displayed its new values when it
\* began to wait. When the request has failed the display shows the values
\* of just before that click; when it has succeeded the display is not taken
\* back: it shows the click's new values, or what it showed already, and it
\* goes on showing the new values if it showed them.
C16_LikeIsOptimisticAndRolledBack ==
    /\ \A click \in DOMAIN likeClicks :
           /\ click.shown = [liked |-> ~click.previousLiked,
                             likeCount |-> IF click.previousLiked
                                           THEN Max(0, click.previousLikeCount - 1)
                                           ELSE click.previousLikeCount + 1]
    /\ \A s \in {settledLike[i] : i \in 1..Len(settledLike)} :
           /\ ~s.ok => s.after = [liked |-> s.click.previousLiked,
                                  likeCount |-> s.click.previousLikeCount]
           /\ s.ok => /\ s.after \in {s.before, s.click.shown}
                      /\ s.before = s.click.shown => s.after = s.click.shown

C16_Witness ==
    /\ \E s \in {settledLike[i] : i \in 1..Len(settledLike)} :
           /\ ~s.ok /\ s.before # s.after /\ s.click.previousLikeCount = 1
    /\ \E click \in DOMAIN likeClicks : click.shown = Shown /\ click.newLiked


\* C17: a click on the follow button changes the displayed following state at
\* once, while its request is still without a response, and a failed request
\* sets it back: while a run of the handler awaits its response the button
\* shows the opposite of what it showed before the click, and after a failed
\* run it shows what it showed before the click.
C17_FollowIsOptimisticAndRolledBack ==
    /\ \A i \in 1..Len(followClicks) : followClicks[i].shown = ~followClicks[i].previous
    /\ \A i \in 1..Len(settledFollow) :
           ~settledFollow[i].ok => settledFollow[i].after = settledFollow[i].click.previous


\* A call of the finished request r has failed: the handler reached the call
\* its fault names. A feed request issues its like and comment queries only
\* for a page that has posts.
CallFailed(r) ==
    /\ r.fault # "none"
    /\ r.kind = "Posts_GET" => r.fault = "posts" \/ Len(r.body.posts) > 0

\* C18: a request one of whose database, storage or identity calls failed
\* ends with an error status, never with a success.
C18_FailedCallsEndInErrors ==
    \A r \in Done : CallFailed(r) => r.status >= BadRequest


\* C19: at every viewport width one navigation layout is shown. Below 768px
\* the MobileHeader (60px high, at the top) and the BottomNav (50px high, at
\* the bottom) are visible and the Sidebar is hidden; from 768px on the
\* Sidebar is visible, 72px wide below 1024px and 244px wide from 1024px, and
\* MobileHeader and BottomNav are hidden; the left margin of the main content
\* is the width of the Sidebar.
C19_OneNavigationLayout ==
    LET w == innerWidth
        sidebar == Visible(SidebarClasses, w)
        header == Visible(MobileHeaderClasses, w)
        bottom == Visible(BottomNavClasses, w)
        sidebarWidth == Computed(cn(SidebarClasses), "width", w, "auto")
        margin == Computed(cn(MainClasses), "margin-left", w, "0px")
    IN /\ w < 768 =>
           /\ header /\ bottom /\ ~sidebar
           /\ Computed(cn(MobileHeaderClasses), "height", w, "auto") = "60px"
           /\ Computed(cn(MobileHeaderClasses), "top", w, "auto") = "0px"
           /\ Computed(cn(BottomNavClasses), "height", w, "auto") = "50px"
           /\ Computed(cn(BottomNavClasses), "bottom", w, "auto") = "0px"
           /\ margin = "0px"
       /\ w >= 768 =>
           /\ sidebar /\ ~header /\ ~bottom
           /\ sidebarWidth = (IF w < 1024 THEN "72px" ELSE "244px")
           /\ margin = sidebarWidth


\* The removal of the image of the post that the finished DELETE r found did
\* not happen: the storage refused it, or the image URL does not parse, or no
\* file path follows the bucket name in it.
RemovalFailed(r) ==
    /\ r.image_url # <<>>
    /\ \/ r.fault = "remove_image"
       \/ ~ParsesAsURL(r.image_url)
       \/ ExtractFilePath(r.image_url) = <<>>

\* C20: a DELETE of a post by its owner whose removal of the image failed
\* (the storage refused, the image URL does not parse, or it holds no file
\* path) still deletes the post row and answers success, unless the delete
\* itself fails.
C20_FailedImageRemovalDoesNotStopTheDelete ==
    \A r \in Done :
        (/\ r.kind = "Posts_DELETE" /\ r.postSeen = "row"
         /\ [post |-> r.post, owner |-> r.userId] \in PostOwners
         /\ r.fault # "delete"
         /\ RemovalFailed(r))
            => (r.status = Ok /\ PostsById(r.post) = {})

\* C20: the storage refused to remove the image, which it still holds, and the
\* post row is gone, removed by this request, which answered success.
C20_Witness ==
    /\ \E r \in Done : /\ r.kind = "Posts_DELETE" /\ r.status = Ok
                       /\ r.fault = "remove_image" /\ r.filePath # <<>>
                       /\ \E o \in storage : o.path = r.filePath
                       /\ PostsById(r.post) = {}
                       /\ \E x \in removedPosts : x.post = r.post /\ x.by = r.clerk


\* C21: GET /api/users/[userId] writes to the users table only for a request
\* whose id is an identity id (no UUID) and is the identity of its signed-in
\* caller, and then only by adding the one row of that identity; the rows
\* that were there stay; and a request for an id that has no users row when
\* it is answered, met by no failure, is answered with 404 and wrote nothing.
C21_OnlyTheOwnerOfAnIdentityCreatesItsRow ==
    /\ SyncedUsers \subseteq users
    /\ \A u \in users \ SyncedUsers : u.clerk_id = UnsyncedClerk
    /\ \A c \in ProfileClerks : Cardinality(UsersByClerk(c)) <= 1
    /\ \A r \in InFlight :
           r.kind = "Users_GET" =>
               /\ r.wrote => /\ ~IsUUID(r.target)
                             /\ r.clerk # Anonymous /\ r.clerk = r.target
                             /\ Cardinality(UsersByClerk(r.target)) = 1
               /\ (r.pc = "done" /\ r.fault = "none" /\ UsersNamed(users, r.target) = {})
                      => (r.status = NotFound /\ ~r.wrote)

\* C21: the caller without a row asked for their own identity id and got the
\* row, while a request of somebody else for that id, answered before, ended
\* in 404.
C21_Witness ==
    /\ \E r \in Done : /\ r.kind = "Users_GET" /\ r.wrote /\ r.status = Ok
                       /\ r.clerk = UnsyncedClerk
    /\ \E r \in Done : /\ r.kind = "Users_GET" /\ r.target = UnsyncedClerk
                       /\ r.clerk # UnsyncedClerk /\ r.status = NotFound


\* An object of the bucket is referenced when a post row holds its public URL.
Referenced(o) == \E p \in posts : p.image_url = PublicUrl(bucket, o.path)

\* C22: a POST /api/posts whose insert failed after its upload has answered
\* 500 and its uploaded object is gone; and once every creation has been
\* answered, every object of the bucket is referenced by a post row.
C22_FailedCreationsLeaveNoObject ==
    /\ \A r \in Done :
           (r.kind = "Posts_POST" /\ r.filePath # <<>> /\ r.post = 0) =>
               /\ r.status = InternalServerError
               /\ ~\E o \in storage : o.path = r.filePath
    /\ Idle => \A o \in storage : Referenced(o)


\* The image of a post row exists when the bucket holds the object its
\* image_url is the public URL of.
ImageExists(p) == \E o \in storage : p.image_url = PublicUrl(bucket, o.path)

\* C23: whatever posts were created and deleted, every post row has its image
\* in storage; and a DELETE of a post that answered with an error has removed
\* neither a row nor an object.
C23_EveryPostKeepsItsImage ==
    /\ \A p \in posts : ImageExists(p)
    /\ \A r \in Done :
           (r.kind = "Posts_DELETE" /\ r.status \notin 200..299) => ~r.wrote


\* C24: the file path DELETE takes from the image_url a POST /api/posts has
\* stored is the path of the upload, whatever the bucket is called; and after
\* a DELETE of the owner whose calls all succeeded the uploaded object is gone.
C24_DeleteFindsTheUploadedObject ==
    /\ \A r \in Done :
           (r.kind = "Posts_POST" /\ r.status = Ok) =>
               /\ ParsesAsURL(r.image_url)
               /\ ExtractFilePath(r.image_url) = r.filePath
    /\ \A r \in Done :
           (r.kind = "Posts_DELETE" /\ r.status = Ok /\ r.fault = "none") =>
               ~\E o \in storage : PublicUrl(bucket, o.path) = r.image_url


\* C25: once every click on the like button has been answered, the button
\* shows the post as liked exactly when the likes table holds the viewer's
\* row for it; and the count it shows is never negative.
C25_SettledLikeButtonShowsTheServerState ==
    /\ likeCount >= 0
    /\ (component \in LikeComponents /\ Idle /\ likeClicks = <<>>) =>
           (liked <=> IsLiked(1, "ub", "none"))


\* The requests of the given kind for the pair k that were answered with
\* success.
Succeeded(kind, k) ==
    SumOver(reqs, {r \in Done : /\ r.kind = kind /\ r.status \in 200..299
                                /\ r.post = k[1] /\ r.userId = k[2]})

\* C26: for every post and user, the like rows the table holds are the rows
\* it held at the start, plus the like requests that succeeded, minus the
\* unlike requests that succeeded; and there is no row or one.
C26_SuccessesAddUpToTheLikeRows ==
    \A k \in LikeKeys :
        /\ likes[k] \in {0, 1}
        /\ likes[k] = TallyLikes[k] + Succeeded("Likes_POST", k)
                          - Succeeded("Likes_DELETE", k)


\* C27: the list of the feed holds no post id twice.
C27_NoPostTwiceInTheFeed ==
    \A i, j \in 1..Len(feed.posts) : feed.posts[i] = feed.posts[j] => i = j


\* The runs of loadMorePosts that await their response.
LoadingMore == {i \in 1..Len(feedCalls) : feedCalls[i].kind = "loadMorePosts"}

\* C28: the feed asks for its pages in order. At most one run of
\* loadMorePosts awaits a response; its request is in flight and asks for the
\* page after the last one that was loaded; none is under way once a loaded
\* page said that there are no more; and a run that failed has left the page
\* counter and the list as they were, while one that succeeded has moved the
\* counter on by one.
C28_PagesAreRequestedInOrder ==
    /\ Cardinality(LoadingMore) <= 1
    /\ \A i \in LoadingMore :
           /\ feedCalls[i].nextPage = feedTrace.loaded + 1
           /\ \E r \in InFlight : /\ r.kind = "Posts_GET"
                                  /\ r.query.page = <<feedTrace.loaded + 1>>
                                  /\ reqs[r] = 1
           /\ ~feedTrace.ended
    /\ \A n \in 1..Len(feedTrace.settled) :
           LET run == feedTrace.settled[n]
           IN run.call.kind = "loadMorePosts" =>
                  IF run.ok THEN run.after.page = run.before.page + 1
                  ELSE /\ run.after.page = run.before.page
                       /\ run.after.posts = run.before.posts

\* C28: after a run of loadMorePosts that failed, a second run has loaded
\* page 2, which was the last page.
C28_Witness ==
    /\ feed.error /\ feed.page = 2 /\ ~feed.hasMore
    /\ Len(feed.posts) > FeedLimit
    /\ feedTrace.loaded = 2 /\ feedTrace.ended
    /\ \E n \in 1..Len(feedTrace.settled) :
           feedTrace.settled[n].call.kind = "loadMorePosts" /\ feedTrace.settled[n].ok
====
